---- MODULE Spec2Model ----
(***************************************************************************)
(* A model of wfdb/io/annotation.py: the WFDB annotation codec (rdann and  *)
(* Annotation.wrann) and its label map.                                     *)
(*                                                                         *)
(* Conventions of the translation.                                         *)
(*  - A Python str is the sequence of its character codes (ord).           *)
(*  - None is the empty tuple <<>> and a value v that is not None is the   *)
(*    one-element tuple <<v>> (Some(v)); this holds for the optional       *)
(*    fields of an Annotation and for the entries of a compacted field.    *)
(*  - An attribute that was deleted and an attribute that is None are both *)
(*    None.                                                                *)
(*  - numpy integers are modelled as unbounded integers: every value the   *)
(*    model reaches is far inside int64.  A sample number, a sample        *)
(*    difference and the 32-bit value of a SKIP are "big" integers         *)
(*    <<h, l>> standing for h * 65536 + l with 0 <= l < 65536, because     *)
(*    2**31 and 2**32 lie outside the integers of the model checker.       *)
(*  - The source file does not import as it stands (the stubs at lines     *)
(*    466 and 487 have no body), and it has faults of spelling and of      *)
(*    dynamic typing that would stop every call: `custom_labels` for       *)
(*    `self.custom_labels` at 644, the method `_contained_label_fields`    *)
(*    used without its call at 454, `self.get_undefined_label_stores()`    *)
(*    for the module function at 580, the arguments `inplace`/`overwrite`  *)
(*    at 1016-1020, `hasattr` on attributes that __init__ always sets,     *)
(*    truth tests of arrays and data frames, `issubset` of a tuple at      *)
(*    1529, six arrays unpacked into five names at 1422.  These are read   *)
(*    as what they stand for: a reference is the object it names,          *)
(*    `hasattr(self, f)`                                                   *)
(*    is "f is not None", and `if x:` on a container is "x is not None     *)
(*    and not empty".  The algorithm is modelled as written: control       *)
(*    flow, data flow, the table consulted, the index used, the order of   *)
(*    a list, the bound compared against and every explicit `raise`.       *)
(*    Where the algorithm reads a value that no statement produced (a      *)
(*    pair index past the array, a local never assigned on that path, a    *)
(*    column the frame does not have, an element of None) the operation    *)
(*    fails at that statement.                                             *)
(*  - rdann is modelled from check_read_inputs to its return; the header   *)
(*    file of lines 1428-1433 is not there.  Its arguments sampfrom and    *)
(*    sampto are integers, and sampto = 0 stands for None as well (the     *)
(*    code tests `sampto` for truth only); data_fields is None or a set    *)
(*    of names.  `contained_elements` at line 961 is read as the local     *)
(*    contained_label_fields.  wrann is followed by rdann of the file it   *)
(*    wrote, called with the default arguments; pc = "written" is the      *)
(*    state in which rdann is called on the file.                          *)
(*  - record_name and extension are not modelled; sample numbers, label    *)
(*    stores, subtype, chan and num are integer arrays and the elements    *)
(*    of symbol, description and aux_note are strings, so the type checks  *)
(*    of check_field pass.                                                 *)
(***************************************************************************)
EXTENDS Integers, Sequences, FiniteSets, TLC

VARIABLES
    pc,            \* position of the running call (rdann / wrann)
    file_bytes,    \* the byte pairs handed to extract_ann_data
    sampto,        \* rdann's sampto (0 stands for None)
    bpi,           \* extract_ann_data: byte pair index
    sample_total,  \* extract_ann_data: running sample total
    sample, label_store, subtype, chan, num, aux_note,  \* the six lists
    update,        \* extract_ann_data: the update flags of the current event
    supplied,      \* history: per event, the extra fields its words supplied
    potential_info_inds, rm_inds,  \* rdann: the results of get_info_inds
    info_i,        \* extract_ann_info: the index i
    fs, custom_labels,  \* extract_ann_info: what it has extracted
    ann,           \* wrann: the Annotation object (self)
    ann0,          \* history: the Annotation object when wrann was called
    write_fs,      \* wrann's write_fs
    label_map,     \* wrann: self.__label_map__
    fs_bytes, cl_bytes, core_bytes,  \* wr_ann_file: the bytes it has computed
    file,          \* the content of the annotation file, None when there is none
    file0,         \* history: the file when wrann was called
    failed_at,     \* the statement that raised, "" when none has
    passed,        \* history: the statements that have run without raising
    sampfrom, shift_samps, data_fields,  \* rdann's other arguments
    annotation,    \* rdann: the Annotation object it returns, None before 1436
    module_labels, \* the data frame bound to the module's name ANN_LABELS
    f2b            \* a direct call of field2bytes: its arguments and result

decVars == <<file_bytes, sampto, bpi, sample_total, sample, label_store,
             subtype, chan, num, aux_note, update, supplied>>

infoVars == <<potential_info_inds, rm_inds, info_i, fs, custom_labels>>

wrVars == <<ann, ann0, write_fs, label_map, fs_bytes, cl_bytes, core_bytes,
            file, file0, failed_at, passed>>

rdVars == <<sampfrom, shift_samps, data_fields, annotation>>

libVars == <<module_labels, f2b>>

vars == <<pc, decVars, infoVars, wrVars, rdVars, libVars>>

---------------------------------------------------------------------------
(* Bounds of the model.                                                    *)

\* The decoder's streams are made of at most MaxTokens word groups
MaxTokens == 4

\* The annotations that are written have at most MaxEvents annotations
MaxEvents == 2

\* The files that are read are made of at most MaxReadTokens word groups
MaxReadTokens == 3

\* The custom labels that are written number at most MaxCustom
MaxCustom == 12

\* The files with information annotations are made of at most MaxInfoTokens
\* annotations
MaxInfoTokens == 3

\* calc_cl_bytes is applied to at most MaxDefinitions custom labels
MaxDefinitions == 2

---------------------------------------------------------------------------
(* Generic helpers.                                                        *)

None == <<>>

Some(v) == <<v>>

Range(s) == {s[i] : i \in 1..Len(s)}

Last(s) == s[Len(s)]

Front(s) == SubSeq(s, 1, Len(s) - 1)

RECURSIVE Flatten(_)
Flatten(ss) == IF ss = <<>> THEN <<>> ELSE Head(ss) \o Flatten(Tail(ss))

RECURSIVE SeqsUpTo(_, _)
SeqsUpTo(S, n) ==
    IF n = 0 THEN {<<>>}
    ELSE LET shorter == SeqsUpTo(S, n - 1)
         IN  shorter \cup {Append(s, x) : s \in {t \in shorter : Len(t) = n - 1}, x \in S}

Min(S) == CHOOSE x \in S : \A y \in S : x <= y

Max(S) == CHOOSE x \in S : \A y \in S : x >= y

Ceil2(n) == (n + 1) \div 2

---------------------------------------------------------------------------
(* Big integers <<h, l>> = h * 65536 + l, 0 <= l < 65536.                  *)

Big(h, l) == <<h + (l \div 65536), l % 65536>>

BInt(n) == Big(0, n)

BAdd(a, b) == Big(a[1] + b[1], a[2] + b[2])

BSub(a, b) == Big(a[1] - b[1], a[2] - b[2])

BLt(a, b) == a[1] < b[1] \/ (a[1] = b[1] /\ a[2] < b[2])

BLe(a, b) == a = b \/ BLt(a, b)

BZero == <<0, 0>>

\* 1023, the largest sample difference of a single pair
B1023 == <<0, 1023>>

\* 2147483647 = 2**31 - 1
B2147483647 == <<32767, 65535>>

\* 2147483648 = 2**31
B2147483648 == <<32768, 0>>

\* 4294967296 = 2**32
B4294967296 == <<65536, 0>>

\* The bytes of a big integer x: x & 255, (x & 65280) >> 8,
\* (x & 16711680) >> 16, (x & 4278190080) >> 24
Byte0(x) == x[2] % 256

Byte1(x) == x[2] \div 256

Byte2(x) == x[1] % 256

Byte3(x) == (x[1] \div 256) % 256

---------------------------------------------------------------------------
(* The standard label table.                                               *)

LABEL_RANGE_LO == 1

LABEL_RANGE_HI == 49

\* A row of a label frame; line 110 makes the label_store the index.
Row(c, s, d) == [index |-> c, label_store |-> c, symbol |-> s, description |-> d]

ANN_LABELS == <<
    \* (1, 'N', 'Normal beat')
    Row(1, <<78>>,
        <<78, 111, 114, 109, 97, 108, 32, 98, 101, 97, 116>>),
    \* (2, 'L', 'Left bundle branch block beat')
    Row(2, <<76>>,
        <<76, 101, 102, 116, 32, 98, 117, 110, 100, 108, 101, 32, 98, 114, 97, 110, 99, 104, 32, 98, 108, 111, 99, 107, 32, 98, 101, 97, 116>>),
    \* (3, 'R', 'Right bundle branch block beat')
    Row(3, <<82>>,
        <<82, 105, 103, 104, 116, 32, 98, 117, 110, 100, 108, 101, 32, 98, 114, 97, 110, 99, 104, 32, 98, 108, 111, 99, 107, 32, 98, 101, 97, 116>>),
    \* (4, 'a', 'Aberrated atrial premature beat')
    Row(4, <<97>>,
        <<65, 98, 101, 114, 114, 97, 116, 101, 100, 32, 97, 116, 114, 105, 97, 108, 32, 112, 114, 101, 109, 97, 116, 117, 114, 101, 32, 98, 101, 97, 116>>),
    \* (5, 'V', 'Premature ventricular contraction')
    Row(5, <<86>>,
        <<80, 114, 101, 109, 97, 116, 117, 114, 101, 32, 118, 101, 110, 116, 114, 105, 99, 117, 108, 97, 114, 32, 99, 111, 110, 116, 114, 97, 99, 116, 105, 111, 110>>),
    \* (6, 'F', 'Fusion of ventricular and normal beat')
    Row(6, <<70>>,
        <<70, 117, 115, 105, 111, 110, 32, 111, 102, 32, 118, 101, 110, 116, 114, 105, 99, 117, 108, 97, 114, 32, 97, 110, 100, 32, 110, 111, 114, 109, 97, 108, 32, 98, 101, 97, 116>>),
    \* (7, 'J', 'Nodal (junctional) premature beat')
    Row(7, <<74>>,
        <<78, 111, 100, 97, 108, 32, 40, 106, 117, 110, 99, 116, 105, 111, 110, 97, 108, 41, 32, 112, 114, 101, 109, 97, 116, 117, 114, 101, 32, 98, 101, 97, 116>>),
    \* (8, 'A', 'Atrial premature contraction')
    Row(8, <<65>>,
        <<65, 116, 114, 105, 97, 108, 32, 112, 114, 101, 109, 97, 116, 117, 114, 101, 32, 99, 111, 110, 116, 114, 97, 99, 116, 105, 111, 110>>),
    \* (9, 'S', 'Premature or ectopic supraventricular beat')
    Row(9, <<83>>,
        <<80, 114, 101, 109, 97, 116, 117, 114, 101, 32, 111, 114, 32, 101, 99, 116, 111, 112, 105, 99, 32, 115, 117, 112, 114, 97, 118, 101, 110, 116, 114, 105, 99, 117, 108, 97, 114, 32, 98, 101, 97, 116>>),
    \* (10, 'E', 'Ventricular escape beat')
    Row(10, <<69>>,
        <<86, 101, 110, 116, 114, 105, 99, 117, 108, 97, 114, 32, 101, 115, 99, 97, 112, 101, 32, 98, 101, 97, 116>>),
    \* (11, 'j', 'Nodal (junctional) escape beat')
    Row(11, <<106>>,
        <<78, 111, 100, 97, 108, 32, 40, 106, 117, 110, 99, 116, 105, 111, 110, 97, 108, 41, 32, 101, 115, 99, 97, 112, 101, 32, 98, 101, 97, 116>>),
    \* (12, '/', 'Paced beat')
    Row(12, <<47>>,
        <<80, 97, 99, 101, 100, 32, 98, 101, 97, 116>>),
    \* (13, 'Q', 'Unclassifiable beat')
    Row(13, <<81>>,
        <<85, 110, 99, 108, 97, 115, 115, 105, 102, 105, 97, 98, 108, 101, 32, 98, 101, 97, 116>>),
    \* (14, '~', 'Signal quality change')
    Row(14, <<126>>,
        <<83, 105, 103, 110, 97, 108, 32, 113, 117, 97, 108, 105, 116, 121, 32, 99, 104, 97, 110, 103, 101>>),
    \* (16, '|', 'Isolated QRS-like artifact')
    Row(16, <<124>>,
        <<73, 115, 111, 108, 97, 116, 101, 100, 32, 81, 82, 83, 45, 108, 105, 107, 101, 32, 97, 114, 116, 105, 102, 97, 99, 116>>),
    \* (18, 's', 'ST change')
    Row(18, <<115>>,
        <<83, 84, 32, 99, 104, 97, 110, 103, 101>>),
    \* (19, 'T', 'T-wave change')
    Row(19, <<84>>,
        <<84, 45, 119, 97, 118, 101, 32, 99, 104, 97, 110, 103, 101>>),
    \* (20, '*', 'Systole')
    Row(20, <<42>>,
        <<83, 121, 115, 116, 111, 108, 101>>),
    \* (21, 'D', 'Diastole')
    Row(21, <<68>>,
        <<68, 105, 97, 115, 116, 111, 108, 101>>),
    \* (22, '"', 'Comment annotation')
    Row(22, <<34>>,
        <<67, 111, 109, 109, 101, 110, 116, 32, 97, 110, 110, 111, 116, 97, 116, 105, 111, 110>>),
    \* (23, '=', 'Measurement annotation')
    Row(23, <<61>>,
        <<77, 101, 97, 115, 117, 114, 101, 109, 101, 110, 116, 32, 97, 110, 110, 111, 116, 97, 116, 105, 111, 110>>),
    \* (24, 'p', 'P-wave peak')
    Row(24, <<112>>,
        <<80, 45, 119, 97, 118, 101, 32, 112, 101, 97, 107>>),
    \* (25, 'B', 'Left or right bundle branch block')
    Row(25, <<66>>,
        <<76, 101, 102, 116, 32, 111, 114, 32, 114, 105, 103, 104, 116, 32, 98, 117, 110, 100, 108, 101, 32, 98, 114, 97, 110, 99, 104, 32, 98, 108, 111, 99, 107>>),
    \* (26, '^', 'Non-conducted pacer spike')
    Row(26, <<94>>,
        <<78, 111, 110, 45, 99, 111, 110, 100, 117, 99, 116, 101, 100, 32, 112, 97, 99, 101, 114, 32, 115, 112, 105, 107, 101>>),
    \* (27, 't', 'T-wave peak')
    Row(27, <<116>>,
        <<84, 45, 119, 97, 118, 101, 32, 112, 101, 97, 107>>),
    \* (28, '+', 'Rhythm change')
    Row(28, <<43>>,
        <<82, 104, 121, 116, 104, 109, 32, 99, 104, 97, 110, 103, 101>>),
    \* (29, 'u', 'U-wave peak')
    Row(29, <<117>>,
        <<85, 45, 119, 97, 118, 101, 32, 112, 101, 97, 107>>),
    \* (30, '?', 'Learning')
    Row(30, <<63>>,
        <<76, 101, 97, 114, 110, 105, 110, 103>>),
    \* (31, '!', 'Ventricular flutter wave')
    Row(31, <<33>>,
        <<86, 101, 110, 116, 114, 105, 99, 117, 108, 97, 114, 32, 102, 108, 117, 116, 116, 101, 114, 32, 119, 97, 118, 101>>),
    \* (32, '[', 'Start of ventricular flutter/fibrillation')
    Row(32, <<91>>,
        <<83, 116, 97, 114, 116, 32, 111, 102, 32, 118, 101, 110, 116, 114, 105, 99, 117, 108, 97, 114, 32, 102, 108, 117, 116, 116, 101, 114, 47, 102, 105, 98, 114, 105, 108, 108, 97, 116, 105, 111, 110>>),
    \* (33, ']', 'End of ventricular flutter/fibrillation')
    Row(33, <<93>>,
        <<69, 110, 100, 32, 111, 102, 32, 118, 101, 110, 116, 114, 105, 99, 117, 108, 97, 114, 32, 102, 108, 117, 116, 116, 101, 114, 47, 102, 105, 98, 114, 105, 108, 108, 97, 116, 105, 111, 110>>),
    \* (34, 'e', 'Atrial escape beat')
    Row(34, <<101>>,
        <<65, 116, 114, 105, 97, 108, 32, 101, 115, 99, 97, 112, 101, 32, 98, 101, 97, 116>>),
    \* (35, 'n', 'Supraventricular escape beat')
    Row(35, <<110>>,
        <<83, 117, 112, 114, 97, 118, 101, 110, 116, 114, 105, 99, 117, 108, 97, 114, 32, 101, 115, 99, 97, 112, 101, 32, 98, 101, 97, 116>>),
    \* (36, '@', 'Link to external data (aux_note contains URL)')
    Row(36, <<64>>,
        <<76, 105, 110, 107, 32, 116, 111, 32, 101, 120, 116, 101, 114, 110, 97, 108, 32, 100, 97, 116, 97, 32, 40, 97, 117, 120, 95, 110, 111, 116, 101, 32, 99, 111, 110, 116, 97, 105, 110, 115, 32, 85, 82, 76, 41>>),
    \* (37, 'x', 'Non-conducted P-wave (blocked APB)')
    Row(37, <<120>>,
        <<78, 111, 110, 45, 99, 111, 110, 100, 117, 99, 116, 101, 100, 32, 80, 45, 119, 97, 118, 101, 32, 40, 98, 108, 111, 99, 107, 101, 100, 32, 65, 80, 66, 41>>),
    \* (38, 'f', 'Fusion of paced and normal beat')
    Row(38, <<102>>,
        <<70, 117, 115, 105, 111, 110, 32, 111, 102, 32, 112, 97, 99, 101, 100, 32, 97, 110, 100, 32, 110, 111, 114, 109, 97, 108, 32, 98, 101, 97, 116>>),
    \* (39, '(', 'Waveform onset')
    Row(39, <<40>>,
        <<87, 97, 118, 101, 102, 111, 114, 109, 32, 111, 110, 115, 101, 116>>),
    \* (40, ')', 'Waveform end')
    Row(40, <<41>>,
        <<87, 97, 118, 101, 102, 111, 114, 109, 32, 101, 110, 100>>),
    \* (41, 'r', 'R-on-T premature ventricular contraction')
    Row(41, <<114>>,
        <<82, 45, 111, 110, 45, 84, 32, 112, 114, 101, 109, 97, 116, 117, 114, 101, 32, 118, 101, 110, 116, 114, 105, 99, 117, 108, 97, 114, 32, 99, 111, 110, 116, 114, 97, 99, 116, 105, 111, 110>>)
    >>

---------------------------------------------------------------------------
(* The decoder: extract_ann_data and its helpers.                          *)

\* file_bytes[i, j] of the source (0-based pair index i, j in {0, 1})
FB(fb, i, j) == fb[i + 1][j + 1]

NPairs(fb) == Len(fb)

\* x >> 2 on a byte
Shr2(x) == x \div 4

\* x & 3 on a byte
And3(x) == x % 4

\* numpy's astype('i1') on a byte
AsInt8(x) == IF x > 127 THEN x - 256 ELSE x

\* proc_core_fields with the test of line 1625 dropped: 2**32 is subtracted
\* from every SKIP value.
proc_core_fields_always_negative(fb, i) ==
    LET ls == Shr2(FB(fb, i, 1))
    IN  IF ls # 59
        THEN [err |-> FALSE,
              sample_diff |-> BInt(FB(fb, i, 0) + 256 * And3(FB(fb, i, 1))),
              label_store |-> ls,
              bpi |-> i + 1]
        ELSE IF i + 3 >= NPairs(fb)
        THEN [err |-> TRUE, sample_diff |-> BZero, label_store |-> 0, bpi |-> i]
        ELSE LET raw == Big(FB(fb, i + 1, 0) + 256 * FB(fb, i + 1, 1),
                            FB(fb, i + 2, 0) + 256 * FB(fb, i + 2, 1))
                 dt  == BSub(raw, B4294967296)
             IN  [err |-> FALSE,
                  sample_diff |-> BAdd(dt, BInt(FB(fb, i + 3, 0) + 256 * And3(FB(fb, i + 3, 1)))),
                  label_store |-> Shr2(FB(fb, i + 3, 1)),
                  bpi |-> i + 4]

\* proc_core_fields without lines 1625-1626: the four bytes of a SKIP are
\* taken as an unsigned number.
proc_core_fields_skip_unsigned(fb, i) ==
    LET ls == Shr2(FB(fb, i, 1))
    IN  IF ls # 59
        THEN [err |-> FALSE,
              sample_diff |-> BInt(FB(fb, i, 0) + 256 * And3(FB(fb, i, 1))),
              label_store |-> ls,
              bpi |-> i + 1]
        ELSE IF i + 3 >= NPairs(fb)
        THEN [err |-> TRUE, sample_diff |-> BZero, label_store |-> 0, bpi |-> i]
        ELSE LET raw == Big(FB(fb, i + 1, 0) + 256 * FB(fb, i + 1, 1),
                            FB(fb, i + 2, 0) + 256 * FB(fb, i + 2, 1))
             IN  [err |-> FALSE,
                  sample_diff |-> BAdd(raw, BInt(FB(fb, i + 3, 0) + 256 * And3(FB(fb, i + 3, 1)))),
                  label_store |-> Shr2(FB(fb, i + 3, 1)),
                  bpi |-> i + 4]

\* proc_core_fields: the sample difference, the label_store and the next
\* pair index; err when a pair index of the skip sequence is out of range.
proc_core_fields(fb, i) ==
    LET ls == Shr2(FB(fb, i, 1))
    IN  IF ls # 59
        THEN [err |-> FALSE,
              sample_diff |-> BInt(FB(fb, i, 0) + 256 * And3(FB(fb, i, 1))),
              label_store |-> ls,
              bpi |-> i + 1]
        ELSE IF i + 3 >= NPairs(fb)
        THEN [err |-> TRUE, sample_diff |-> BZero, label_store |-> 0, bpi |-> i]
        ELSE LET \* 65536 * b[i+1,0] + 16777216 * b[i+1,1] + b[i+2,0] + 256 * b[i+2,1]
                 raw == Big(FB(fb, i + 1, 0) + 256 * FB(fb, i + 1, 1),
                            FB(fb, i + 2, 0) + 256 * FB(fb, i + 2, 1))
                 dt  == IF BLt(B2147483647, raw) THEN BSub(raw, B4294967296) ELSE raw
             IN  [err |-> FALSE,
                  sample_diff |-> BAdd(dt, BInt(FB(fb, i + 3, 0) + 256 * And3(FB(fb, i + 3, 1)))),
                  label_store |-> Shr2(FB(fb, i + 3, 1)),
                  bpi |-> i + 4]

\* The aux_note string of proc_extra_field: the pairs bpi+1 .. bpi+ceil(len/2)
\* that exist (a numpy slice stops at the end of the array), flattened, the
\* last byte dropped when the length is odd.
AuxNoteBytes(fb, i) ==
    LET len   == FB(fb, i, 0)
        last  == IF i + Ceil2(len) < NPairs(fb) THEN i + Ceil2(len) ELSE NPairs(fb) - 1
        flat  == [k \in 1..(2 * (last - i)) |-> fb[i + 1 + ((k + 1) \div 2)][2 - (k % 2)]]
    IN  IF len % 2 = 1 /\ flat # <<>> THEN Front(flat) ELSE flat

\* proc_extra_field: one extra-field pair (tag 60..63) of the current event
proc_extra_field(ls, fb, i, st, ch, nm, an, upd) ==
    IF ls = 61
    THEN [subtype |-> Append(st, AsInt8(FB(fb, i, 0))), chan |-> ch, num |-> nm,
          aux_note |-> an, update |-> [upd EXCEPT !.subtype = FALSE], bpi |-> i + 1]
    ELSE IF ls = 62
    THEN [subtype |-> st, chan |-> Append(ch, FB(fb, i, 0)), num |-> nm,
          aux_note |-> an, update |-> [upd EXCEPT !.chan = FALSE], bpi |-> i + 1]
    ELSE IF ls = 60
    THEN [subtype |-> st, chan |-> ch, num |-> Append(nm, AsInt8(FB(fb, i, 0))),
          aux_note |-> an, update |-> [upd EXCEPT !.num = FALSE], bpi |-> i + 1]
    ELSE IF ls = 63
    THEN [subtype |-> st, chan |-> ch, num |-> nm,
          aux_note |-> Append(an, AuxNoteBytes(fb, i)),
          update |-> [upd EXCEPT !.aux_note = FALSE],
          bpi |-> i + 1 + Ceil2(FB(fb, i, 0))]
    ELSE [subtype |-> st, chan |-> ch, num |-> nm, aux_note |-> an,
          update |-> upd, bpi |-> i]

\* update_extra_fields: defaults for subtype and aux_note, carry for chan, num
CarryAppend(l) == IF l = <<>> THEN Append(l, 0) ELSE Append(l, Last(l))

update_extra_fields(st, ch, nm, an, upd) ==
    [subtype  |-> IF upd.subtype THEN Append(st, 0) ELSE st,
     chan     |-> IF upd.chan THEN CarryAppend(ch) ELSE ch,
     num      |-> IF upd.num THEN CarryAppend(nm) ELSE nm,
     aux_note |-> IF upd.aux_note THEN Append(an, <<>>) ELSE an]

\* rm_last: pop each list
rm_last(l) == Front(l)

AllUpdate == [subtype |-> TRUE, chan |-> TRUE, num |-> TRUE, aux_note |-> TRUE]

\* The history record of one annotation: the pair index it starts at and the
\* values its extra-field pairs supplied for each field.
NoSupplied(start) == [start |-> start, subtype |-> {}, chan |-> {},
                      num |-> {}, aux_note |-> {}]

\* extract_ann_data, lines 1558-1566: the empty lists and the indices
ExtractStart(fb, st) ==
    /\ file_bytes' = fb
    /\ sampto' = st
    /\ bpi' = 0
    /\ sample_total' = BZero
    /\ sample' = <<>>
    /\ label_store' = <<>>
    /\ subtype' = <<>>
    /\ chan' = <<>>
    /\ num' = <<>>
    /\ aux_note' = <<>>
    /\ update' = AllUpdate
    /\ supplied' = <<>>

\* The while test of line 1574 and, when it holds, lines 1576-1587: the core
\* fields of the next annotation.
ProcCore ==
    /\ pc = "core"
    /\ UNCHANGED <<infoVars, wrVars, rdVars, libVars>>
    /\ IF bpi < NPairs(file_bytes) - 1
       THEN LET r == proc_core_fields(file_bytes, bpi)
            IN  IF r.err
                THEN /\ pc' = "rd_error"
                     /\ UNCHANGED decVars
                ELSE /\ pc' = "extra"
                     /\ bpi' = r.bpi
                     /\ sample_total' = BAdd(sample_total, r.sample_diff)
                     /\ sample' = Append(sample, BAdd(sample_total, r.sample_diff))
                     /\ label_store' = Append(label_store, r.label_store)
                     /\ update' = AllUpdate
                     /\ supplied' = Append(supplied, NoSupplied(bpi))
                     /\ UNCHANGED <<file_bytes, sampto, subtype, chan, num, aux_note>>
       ELSE /\ pc' = "extracted"
            /\ UNCHANGED decVars

\* Lines 1587-1592: read the next tag and, while it exceeds 59, process one
\* extra field; reading the tag past the last pair is an IndexError.
ProcExtra ==
    /\ pc = "extra"
    /\ UNCHANGED <<infoVars, wrVars, rdVars, libVars>>
    /\ IF bpi >= NPairs(file_bytes)
       THEN /\ pc' = "rd_error"
            /\ UNCHANGED decVars
       ELSE LET ls == Shr2(FB(file_bytes, bpi, 1))
            IN  IF ls > 59
                THEN LET r == proc_extra_field(ls, file_bytes, bpi, subtype, chan,
                                               num, aux_note, update)
                         f == CASE ls = 61 -> "subtype" [] ls = 62 -> "chan"
                                [] ls = 60 -> "num" [] OTHER -> "aux_note"
                     IN  /\ pc' = "extra"
                         /\ bpi' = r.bpi
                         /\ subtype' = r.subtype
                         /\ chan' = r.chan
                         /\ num' = r.num
                         /\ aux_note' = r.aux_note
                         /\ update' = r.update
                         /\ supplied' = [supplied EXCEPT ![Len(supplied)][f] =
                                            @ \cup {Last(r[f])}]
                         /\ UNCHANGED <<file_bytes, sampto, sample_total, sample, label_store>>
                ELSE /\ pc' = "update"
                     /\ UNCHANGED decVars

\* The test of line 1597 with <= for <
extract_ann_data_cut_inclusive(st, total) == st # 0 /\ BLe(BInt(st), total)

\* The test of line 1597: sampto and sampto < sample_total
extract_ann_data_cut(st, total) == st # 0 /\ BLt(BInt(st), total)

\* Lines 1594-1599: defaults and carry-over, then the sampto cut.
UpdateExtra ==
    /\ pc = "update"
    /\ UNCHANGED <<infoVars, wrVars, rdVars, libVars>>
    /\ LET r   == update_extra_fields(subtype, chan, num, aux_note, update)
           cut == extract_ann_data_cut(sampto, sample_total)
       IN  /\ pc' = IF cut THEN "extracted" ELSE "core"
           /\ sample' = IF cut THEN rm_last(sample) ELSE sample
           /\ label_store' = IF cut THEN rm_last(label_store) ELSE label_store
           /\ subtype' = IF cut THEN rm_last(r.subtype) ELSE r.subtype
           /\ chan' = IF cut THEN rm_last(r.chan) ELSE r.chan
           /\ num' = IF cut THEN rm_last(r.num) ELSE r.num
           /\ aux_note' = IF cut THEN rm_last(r.aux_note) ELSE r.aux_note
    /\ UNCHANGED <<file_bytes, sampto, bpi, sample_total, update, supplied>>

---------------------------------------------------------------------------
(* The Annotation object and the checks of its fields.                     *)

\* `if x:` on an optional list
Truthy(x) == x # None /\ x[1] # <<>>

\* The characters of the regular expression [ \t\n\r\f\v]
Whitespace == {32, 9, 10, 13, 12, 11}

\* The characters of the regular expression [\t\n\r\f\v]
TabsNewlines == {9, 10, 13, 12, 11}

\* np.concatenate(([sample[0]], np.diff(sample))), lines 416-419 and 764-767
SampDiffs(s) == [i \in 1..Len(s) |-> IF i = 1 THEN s[1] ELSE BSub(s[i], s[i - 1])]

\* check_field('sample') without the test of line 424
check_field_sample_no_diff_test(s) ==
    /\ Len(s) > 0
    /\ \A i \in 1..Len(s) : BLe(BZero, s[i])
    /\ \A i \in 1..Len(s) : ~BLt(B2147483648, SampDiffs(s)[i])

\* check_field('sample'), lines 415-427: TRUE when no error is raised
check_field_sample(s) ==
    /\ Len(s) > 0
    /\ \A i \in 1..Len(s) : BLe(BZero, s[i])
    /\ \A i \in 1..Len(s) : BLe(BZero, SampDiffs(s)[i])
    /\ \A i \in 1..Len(s) : ~BLt(B2147483648, SampDiffs(s)[i])

\* check_field('label_store') with `max(item) > 49` written `max(item) >= 49`
check_field_label_store_strict(l) ==
    /\ Len(l) > 0
    /\ ~(Min(Range(l)) < 1 \/ Max(Range(l)) >= 49)

\* check_field('label_store'), lines 429-431 (min of an empty array raises)
check_field_label_store(l) ==
    /\ Len(l) > 0
    /\ ~(Min(Range(l)) < 1 \/ Max(Range(l)) > 49)

\* check_field('subtype') and check_field('num'), lines 434-437 and 442-445
check_field_signed_char(l) ==
    /\ Len(l) > 0
    /\ ~(Min(Range(l)) < 0 \/ Max(Range(l)) > 127)

\* check_field('chan'), lines 438-441
check_field_chan(l) ==
    /\ Len(l) > 0
    /\ ~(Min(Range(l)) < 0 \/ Max(Range(l)) > 255)

\* check_field('symbol'), lines 397-409
check_field_symbol(l) ==
    \A e \in Range(l) : Len(e) \in {1, 2, 3} /\ Range(e) \cap Whitespace = {}

\* check_field('description') and check_field('aux_note'), lines 397-413
check_field_text(l) ==
    \A e \in Range(l) : Range(e) \cap TabsNewlines = {}

\* check_field('fs'), lines 330-332
check_field_fs(f) == ~(f <= 0)

\* A custom label as the caller gives it: a pair (symbol, description), whose
\* label_store is None here, or a triplet (label_store, symbol, description).
CustomRow(c, s, d) == [label_store |-> c, symbol |-> s, description |-> d]

\* set([len(i) for i in item]) == {2}, line 353
AllPairs(cl) == cl # <<>> /\ \A i \in 1..Len(cl) : cl[i].label_store = None

\* set([len(i) for i in item]) == {3}, line 357
AllTriplets(cl) == cl # <<>> /\ \A i \in 1..Len(cl) : cl[i].label_store # None

CustomStores(cl) == [i \in 1..Len(cl) |-> cl[i].label_store[1]]

CustomSymbols(cl) == [i \in 1..Len(cl) |-> cl[i].symbol]

\* The test of line 372: the label_store values of the custom labels
CustomStoresInRange(cl) ==
    ~(Min(Range(CustomStores(cl))) < 1 \/ Max(Range(CustomStores(cl))) > 49)

\* check_field('custom_labels'), lines 333-394, for a list of tuples
check_field_custom_labels(cl) ==
    /\ AllPairs(cl) \/ AllTriplets(cl)
    /\ AllTriplets(cl) =>
          /\ Len(cl) = Cardinality(Range(CustomStores(cl)))
          /\ CustomStoresInRange(cl)
    /\ Len(cl) = Cardinality(Range(CustomSymbols(cl)))
    /\ \A i \in 1..Len(cl) :
          /\ Len(cl[i].symbol) \in {1, 2, 3}
          /\ Range(cl[i].symbol) \cap Whitespace = {}

\* check_fields, lines 298-304: every field the object has passes its check
check_fields(a) ==
    /\ a.sample # None => check_field_sample(a.sample[1])
    /\ a.symbol # None => check_field_symbol(a.symbol[1])
    /\ a.subtype # None => check_field_signed_char(a.subtype[1])
    /\ a.chan # None => check_field_chan(a.chan[1])
    /\ a.num # None => check_field_signed_char(a.num[1])
    /\ a.aux_note # None => check_field_text(a.aux_note[1])
    /\ a.label_store # None => check_field_label_store(a.label_store[1])
    /\ a.description # None => check_field_text(a.description[1])
    /\ a.fs # None => check_field_fs(a.fs[1])
    /\ a.custom_labels # None => check_field_custom_labels(a.custom_labels[1])

\* ANN_LABEL_FIELDS, line 22
ANN_LABEL_FIELDS == <<"label_store", "symbol", "description">>

\* _contained_label_fields, lines 292-296
contained_label_fields(a) ==
    SelectSeq(ANN_LABEL_FIELDS, LAMBDA f : Truthy(a[f]))

---------------------------------------------------------------------------
(* Python's set of small integers: a hash table with linear probing, whose *)
(* slot order is the order of list(set) (CPython, Objects/setobject.c).    *)

\* A slot holds None or Some(key)
PyNewTable(size) ==
    [mask |-> size - 1, slots |-> [i \in 0..(size - 1) |-> None], used |-> 0]

RECURSIVE PyFindSlot(_, _, _, _)
PyFindSlot(slots, mask, i, perturb) ==
    LET probes == IF i + 9 <= mask THEN 9 ELSE 0
        free   == {j \in i..(i + probes) : slots[j] = None}
    IN  IF free # {} THEN Min(free)
        ELSE PyFindSlot(slots, mask, (i * 5 + 1 + (perturb \div 32)) % (mask + 1),
                        perturb \div 32)

PyInsertClean(t, key) ==
    [t EXCEPT !.slots[PyFindSlot(t.slots, t.mask, key % (t.mask + 1), key)] = Some(key),
              !.used = @ + 1]

RECURSIVE PyInsertAllClean(_, _)
PyInsertAllClean(t, keys) ==
    IF keys = <<>> THEN t ELSE PyInsertAllClean(PyInsertClean(t, Head(keys)), Tail(keys))

\* The keys of a table in slot order
RECURSIVE PyWalk(_, _)
PyWalk(t, i) ==
    IF i > t.mask THEN <<>>
    ELSE t.slots[i] \o PyWalk(t, i + 1)

PyList(t) == PyWalk(t, 0)

RECURSIVE PyTableSize(_, _)
PyTableSize(size, minused) == IF size > minused THEN size ELSE PyTableSize(2 * size, minused)

PyResize(t, minused) == PyInsertAllClean(PyNewTable(PyTableSize(8, minused)), PyList(t))

PySetAdd(t, key) ==
    LET t1 == PyInsertClean(t, key)
    IN  IF t1.used * 5 < t1.mask * 3 THEN t1 ELSE PyResize(t1, t1.used * 4)

RECURSIVE PySetAddAll(_, _)
PySetAddAll(t, keys) ==
    IF keys = <<>> THEN t ELSE PySetAddAll(PySetAdd(t, Head(keys)), Tail(keys))

Ascending(S) ==
    [i \in 1..Cardinality(S) |-> CHOOSE x \in S : Cardinality({y \in S : y < x}) = i - 1]

\* list(a - b) for sets of small integers: the elements of a, met in
\* ascending order, are added to an empty set when they are not in b.
PyListOfDifference(a, b) == PyList(PySetAddAll(PyNewTable(8), Ascending(a \ b)))

---------------------------------------------------------------------------
(* The label map: ANN_LABELS overlaid with the custom labels.              *)

Column(frame, f) == [i \in 1..Len(frame) |-> frame[i][f]]

\* get_undefined_label_stores, lines 1809-1814:
\* list(set(range(50)) - set(ANN_LABELS['label_store']))
get_undefined_label_stores ==
    PyListOfDifference(0..49, Range(Column(ANN_LABELS, "label_store")))

\* _get_custom_labels_attribute, lines 586-618, on the data frame that
\* _custom_labels_to_df made: it raises when the frame has no label_store
\* column, whatever the attribute asked for.
get_custom_labels_attribute(cl, attribute) ==
    IF cl[1].label_store = None
    THEN [err |-> TRUE, values |-> <<>>]
    ELSE [err |-> FALSE,
          values |-> [i \in 1..Len(cl) |-> IF attribute = "label_store"
                                           THEN cl[i].label_store[1]
                                           ELSE cl[i][attribute]]]

\* The label_store of the rows of ANN_LABELS whose `field` is in V
StoresOf(field, V) ==
    {ANN_LABELS[i].label_store :
        i \in {j \in 1..Len(ANN_LABELS) : ANN_LABELS[j][field] \in V}}

\* _get_available_label_stores, lines 533-584: undefined + unused + overwritten
get_available_label_stores(a) ==
    IF contained_label_fields(a) = <<>>
    THEN [err |-> TRUE, stores |-> <<>>]
    ELSE LET usefield    == Head(contained_label_fields(a))
             base        == Range(Column(ANN_LABELS, usefield))
             unused      == StoresOf(usefield, base \ Range(a[usefield][1]))
             custom      == IF a.custom_labels # None
                            THEN get_custom_labels_attribute(a.custom_labels[1], usefield)
                            ELSE [err |-> FALSE, values |-> <<>>]
             overwritten == StoresOf(usefield, Range(custom.values) \cap base)
         IN  IF custom.err
             THEN [err |-> TRUE, stores |-> <<>>]
             ELSE [err |-> FALSE,
                   stores |-> Ascending(Range(get_undefined_label_stores)
                                        \cup unused \cup overwritten)]

\* label_map.loc[i] = row: the row whose index is i is replaced, and a row
\* is appended when there is none.
SetLoc(frame, i, row) ==
    IF \E p \in 1..Len(frame) : frame[p].index = i
    THEN [p \in 1..Len(frame) |-> IF frame[p].index = i THEN row ELSE frame[p]]
    ELSE Append(frame, row)

\* Lines 661-662: the custom rows are entered at their own index, which is
\* their position 0, 1, ... in custom_labels.
RECURSIVE EnterCustom(_, _, _, _)
EnterCustom(frame, cl, stores, j) ==
    IF j > Len(cl) THEN frame
    ELSE EnterCustom(SetLoc(frame, j - 1,
                            [index |-> j - 1, label_store |-> stores[j],
                             symbol |-> cl[j].symbol, description |-> cl[j].description]),
                     cl, stores, j + 1)

\* Line 665: label_map.set_index(label_map['label_store'].values)
SetIndexToStore(frame) ==
    [p \in 1..Len(frame) |-> [frame[p] EXCEPT !.index = frame[p].label_store]]

NoMap == [err |-> TRUE, map |-> <<>>]

\* _create_label_map, lines 620-667.  err: an exception is raised and
\* __label_map__ is not set.
create_label_map(a) ==
    IF ~Truthy(a.custom_labels)
    THEN [err |-> FALSE, map |-> ANN_LABELS]
    ELSE LET cl == a.custom_labels[1]
             k  == Len(cl)
         IN  IF ~check_field_custom_labels(cl)
             THEN NoMap                    \* line 641 (517)
             ELSE IF cl[1].label_store # None
             THEN NoMap                    \* line 657: available_label_stores was never assigned
             ELSE LET undefined == get_undefined_label_stores
                      available == IF k > Len(undefined)
                                   THEN get_available_label_stores(a)
                                   ELSE [err |-> FALSE, stores |-> undefined]
                  IN  IF available.err
                      THEN NoMap           \* line 649 (600)
                      ELSE IF k > Len(available.stores)
                      THEN NoMap           \* line 654
                      ELSE [err |-> FALSE,
                            map |-> SetIndexToStore(
                                        EnterCustom(ANN_LABELS, cl,
                                                    SubSeq(available.stores, 1, k), 1))]

\* convert_label_attribute, lines 1000-1029: label_map.loc[values, target]
\* on the map indexed by the source field.  A value that is not in the index
\* raises; a value that occurs in several rows yields each of them.
convert_label_attribute(frame, values, source_field, target_field) ==
    LET hits(v) == SelectSeq(frame, LAMBDA r : r[source_field] = v)
    IN  IF \E i \in 1..Len(values) : hits(values[i]) = <<>>
        THEN [err |-> TRUE, values |-> <<>>]
        ELSE [err |-> FALSE,
              values |-> Flatten([i \in 1..Len(values) |->
                                     Column(hits(values[i]), target_field)])]

\* check_field_cohesion, lines 449-494: TRUE when no error is raised
\* (len(self.sample) raises when sample is None)
check_field_cohesion(a, frame) ==
    LET n_annots == Len(a.sample[1])
        fields   == <<"sample", "num", "subtype", "chan", "aux_note">>
                    \o contained_label_fields(a)
    IN  /\ a.sample # None
        /\ \A i \in 1..Len(fields) :
              Truthy(a[fields[i]]) => Len(a[fields[i]][1]) = n_annots
        /\ \A i \in 1..Len(contained_label_fields(a)) :
              LET field == contained_label_fields(a)[i]
              IN  Range(a[field][1]) \ Range(Column(frame, field)) = {}

---------------------------------------------------------------------------
(* The encoder: the bytes that wr_ann_file writes.                         *)

\* str(n) for an integer n >= 0
RECURSIVE Str(_)
Str(n) == IF n < 10 THEN <<48 + n>> ELSE Str(n \div 10) \o <<48 + (n % 10)>>

\* astype('u1') on a list of integers
AsU1(bytes) == [i \in 1..Len(bytes) |-> bytes[i] % 256]

NoBytes == [err |-> TRUE, bytes |-> <<>>]

Bytes(b) == [err |-> FALSE, bytes |-> b]

\* The loop of compact_carry_field, lines 1118-1126
RECURSIVE CompactCarry(_, _)
CompactCarry(full_field, prev_field) ==
    IF full_field = <<>> THEN <<>>
    ELSE IF Head(full_field) # prev_field
         THEN <<Some(Head(full_field))>> \o CompactCarry(Tail(full_field), Head(full_field))
         ELSE <<None>> \o CompactCarry(Tail(full_field), prev_field)

\* np.array_equal(x, [None]*len(x))
AllNone(x) == \A i \in 1..Len(x) : x[i] = None

\* compact_carry_field without the comparison of line 1124: every element
\* is written
compact_carry_field_every(full_field) ==
    IF full_field = None THEN None
    ELSE Some([i \in 1..Len(full_field[1]) |-> Some(full_field[1][i])])

\* compact_carry_field, lines 1100-1132
compact_carry_field(full_field) ==
    IF full_field = None THEN None
    ELSE LET compact_field == CompactCarry(full_field[1], 0)
         IN  IF AllNone(compact_field) THEN None ELSE Some(compact_field)

\* Lines 817-831 for an array: the zeros of subtype are not written
compact_subtype(st, n_annots) ==
    IF st = None THEN None
    ELSE IF Cardinality({i \in 1..Len(st[1]) : st[1][i] = 0}) = n_annots THEN None
    ELSE Some([i \in 1..Len(st[1]) |-> IF st[1][i] = 0 THEN None ELSE Some(st[1][i])])

\* Lines 834-839: the empty strings of aux_note are not written
compact_aux_note(an, n_annots) ==
    IF an = None THEN None
    ELSE LET l == [i \in 1..Len(an[1]) |->
                      IF i <= n_annots /\ an[1][i] = <<>> THEN None ELSE Some(an[1][i])]
         IN  IF Len(l) = n_annots /\ AllNone(l) THEN None ELSE Some(l)

\* _compact_fields, lines 802-839, on the copy of the object; err: line 836
\* reads aux_note[i] past the end of the list.
compact_fields(a) ==
    LET n_annots == Len(a.sample[1])
    IN  [err      |-> a.aux_note # None /\ Len(a.aux_note[1]) < n_annots,
         chan     |-> compact_carry_field(a.chan),
         num      |-> compact_carry_field(a.num),
         subtype  |-> compact_subtype(a.subtype, n_annots),
         aux_note |-> compact_aux_note(a.aux_note, n_annots)]

\* isblank, lines 1091-1097
isblank(x) == x = None \/ (x[1] # <<>> /\ AllNone(x[1]))

\* ANN_LABELS.loc[ANN_LABELS['symbol']==value[1], 'label_store'].values
typecodes(symbol) ==
    Column(SelectSeq(ANN_LABELS, LAMBDA r : r.symbol = symbol), "label_store")

\* field2bytes('samptype', [sd, symbol]), lines 1141-1160; err: line 1143
\* takes element 0 of an empty selection.
field2bytes_samptype(sd, symbol) ==
    IF typecodes(symbol) = <<>> THEN NoBytes
    ELSE LET typecode == typecodes(symbol)[1]
         IN  IF BLt(B1023, sd)
             THEN Bytes(<<0, 236, Byte2(sd), Byte3(sd), Byte0(sd), Byte1(sd),
                          0, 4 * typecode>>)
             ELSE Bytes(<<Byte0(sd), (Byte1(sd) % 4) + 4 * typecode>>)

\* field2bytes for num, subtype, chan and aux_note, lines 1162-1181
field2bytes(field, value) ==
    CASE field = "num"      -> <<value, 240>>
      [] field = "subtype"  -> <<value, 244>>
      [] field = "chan"     -> <<value, 248>>
      [] field = "aux_note" -> <<Len(value), 252>> \o value
                               \o (IF Len(value) % 2 = 1 THEN <<0>> ELSE <<>>)

\* calc_core_bytes, lines 759-799; err: the copy cannot be compacted, symbol
\* is None or has no element i, or field2bytes fails.
calc_core_bytes(a) ==
    LET sampdiff == SampDiffs(a.sample[1])
        compact_annotation == compact_fields(a)
        extra_write_fields ==
            SelectSeq(<<"num", "subtype", "chan", "aux_note">>,
                      LAMBDA f : ~isblank(compact_annotation[f]))
        core(i)  == field2bytes_samptype(sampdiff[i], a.symbol[1][i])
        extra(i) == Flatten([k \in 1..Len(extra_write_fields) |->
                        LET value == compact_annotation[extra_write_fields[k]][1][i]
                        IN  IF value # None
                            THEN field2bytes(extra_write_fields[k], value[1])
                            ELSE <<>>])
    IN  IF compact_annotation.err THEN NoBytes
        ELSE IF a.symbol = None \/ Len(a.symbol[1]) < Len(sampdiff) THEN NoBytes
        ELSE IF \E i \in 1..Len(sampdiff) : core(i).err THEN NoBytes
        ELSE Bytes(AsU1(Flatten([i \in 1..Len(sampdiff) |-> core(i).bytes \o extra(i)])))

\* calc_fs_bytes, lines 702-733, for an integer fs
calc_fs_bytes(a) ==
    IF a.fs = None THEN <<>>
    ELSE LET fschars == Str(a.fs[1])
             ndigits == Len(fschars)
             head    == <<0, 88, ndigits + 20, 252, 35, 35, 32, 116, 105, 109, 101, 32,
                          114, 101, 115, 111, 108, 117, 116, 105, 111, 110, 58, 32>>
         IN  AsU1(head \o fschars \o (IF ndigits % 2 = 1 THEN <<0>> ELSE <<>>))

\* custom_triplet_bytes, lines 1074-1087; err: ord() of a symbol that is
\* not one character.
custom_triplet_bytes(custom_triplet) ==
    IF Len(custom_triplet.symbol) # 1 THEN NoBytes
    ELSE LET code     == Str(custom_triplet.label_store[1])
             annbytes == <<0, 88, Len(custom_triplet.description) + 3 + Len(code), 252>>
                         \o code \o <<32>> \o custom_triplet.symbol \o <<32>>
                         \o custom_triplet.description
         IN  Bytes(annbytes \o (IF Len(annbytes) % 2 = 1 THEN <<0>> ELSE <<>>))

\* calc_cl_bytes, lines 735-757; err: line 755 selects the label_store
\* column of a frame that has none.
calc_cl_bytes(a) ==
    IF a.custom_labels = None THEN Bytes(<<>>)
    ELSE LET cl        == a.custom_labels[1]
             headbytes == <<0, 88, 30, 252, 35, 35, 32, 97, 110, 110, 111, 116, 97, 116,
                            105, 111, 110, 32, 116, 121, 112, 101, 32, 100, 101, 102,
                            105, 110, 105, 116, 105, 111, 110, 115>>
             tailbytes == <<0, 88, 21, 252, 35, 35, 32, 101, 110, 100, 32, 111, 102, 32,
                            100, 101, 102, 105, 110, 105, 116, 105, 111, 110, 115, 0>>
             custom(i) == custom_triplet_bytes(cl[i])
         IN  IF \E i \in 1..Len(cl) : cl[i].label_store = None \/ custom(i).err
             THEN NoBytes
             ELSE Bytes(AsU1(headbytes
                             \o Flatten([i \in 1..Len(cl) |-> custom(i).bytes])
                             \o tailbytes))

\* Line 690: the SKIP of -1 and the pair [1, 0] that end the special section
end_special_bytes(fsb, clb) ==
    IF fsb = <<>> /\ clb = <<>> THEN <<>>
    ELSE <<0, 236, 255, 255, 255, 255, 1, 0>>

\* Lines 697-698: everything that is written
wr_ann_file_bytes(fsb, clb, coreb) ==
    fsb \o clb \o end_special_bytes(fsb, clb) \o coreb \o <<0, 0>>

---------------------------------------------------------------------------
(* rdann after extract_ann_data: the information annotations.              *)

StartsWith(s, p) == Len(s) >= Len(p) /\ SubSeq(s, 1, Len(p)) = p

\* '## '
InfoPrefix == <<35, 35, 32>>

\* '## time resolution: '
FsPrefix == <<35, 35, 32, 116, 105, 109, 101, 32, 114, 101, 115, 111, 108, 117, 116,
              105, 111, 110, 58, 32>>

\* '## annotation type definitions'
DefinitionsStart == <<35, 35, 32, 97, 110, 110, 111, 116, 97, 116, 105, 111, 110, 32,
                      116, 121, 112, 101, 32, 100, 101, 102, 105, 110, 105, 116, 105,
                      111, 110, 115>>

\* '## end of definitions'
DefinitionsEnd == <<35, 35, 32, 101, 110, 100, 32, 111, 102, 32, 100, 101, 102, 105,
                    110, 105, 116, 105, 111, 110, 115>>

\* The characters \d matches, and the characters \S does not match, among
\* the characters a byte can give
Digits == 48..57

RegexSpace == {9, 10, 11, 12, 13, 28, 29, 30, 31, 32, 133, 160}

\* The length of the longest run of characters of S that starts at s[p]
RunLength(s, p, S) ==
    LET stops == {q \in p..Len(s) : s[q] \notin S}
    IN  IF stops # {} THEN Min(stops) - p
        ELSE IF p > Len(s) THEN 0 ELSE Len(s) - p + 1

\* int() of a string of digits
RECURSIVE IntOf(_)
IntOf(digits) ==
    IF digits = <<>> THEN 0 ELSE 10 * IntOf(Front(digits)) + (Last(digits) - 48)

\* rx_fs.findall(s), line 1710: the leftmost '## time resolution: ' that a
\* digit follows, with the digits, one optional point and further digits
rx_fs_findall(s) ==
    LET n    == Len(FsPrefix)
        hits == {p \in 1..Len(s) : /\ p + n <= Len(s)
                                   /\ SubSeq(s, p, p + n - 1) = FsPrefix
                                   /\ s[p + n] \in Digits}
    IN  IF hits = {} THEN [found |-> FALSE, whole |-> <<>>, frac |-> <<>>]
        ELSE LET p == Min(hits) + n
                 d == RunLength(s, p, Digits)
                 point == p + d <= Len(s) /\ s[p + d] = 46
                 f == IF point THEN RunLength(s, p + d + 1, Digits) ELSE 0
             IN  [found |-> TRUE,
                  whole |-> SubSeq(s, p, p + d - 1),
                  frac  |-> SubSeq(s, p + d + 1, p + d + f)]

\* Lines 1758-1760: float(search_fs[0]), made an int when round(fs, 8) is
\* whole.  A value that stays a float is kept as its two digit strings.
FsValue(m) ==
    LET pad   == m.frac \o <<48, 48, 48, 48, 48, 48, 48, 48, 48>>
        whole == /\ \A k \in 1..8 : pad[k] = 48
                 /\ pad[9] < 53
    IN  IF whole THEN IntOf(m.whole) ELSE [whole |-> IntOf(m.whole), frac |-> m.frac]

\* `not fs`, line 1755
NotFs(f) == f = None \/ f[1] = 0

\* rx_custom_label.findall(s)[0], lines 1711 and 1766: the leftmost digits,
\* space, characters that are not spaces, space, and the rest of the line.
rx_custom_label_findall(s) ==
    LET d(p)  == RunLength(s, p, Digits)
        r(p)  == RunLength(s, p + d(p) + 1, 0..255 \ RegexSpace)
        hits  == {p \in 1..Len(s) :
                     /\ d(p) >= 1
                     /\ p + d(p) <= Len(s) /\ s[p + d(p)] = 32
                     /\ r(p) >= 1
                     /\ p + d(p) + 1 + r(p) <= Len(s) /\ s[p + d(p) + 1 + r(p)] = 32
                     /\ p + d(p) + 2 + r(p) <= Len(s) /\ s[p + d(p) + 2 + r(p)] # 10}
    IN  IF hits = {} THEN [found |-> FALSE, label |-> <<>>]
        ELSE LET p     == Min(hits)
                 q     == p + d(p) + 2 + r(p)
                 rest  == SubSeq(s, q, Len(s))
                 line  == RunLength(rest, 1, 0..255 \ {10})
             IN  [found |-> TRUE,
                  label |-> <<IntOf(SubSeq(s, p, p + d(p) - 1)),
                              SubSeq(s, p + d(p) + 1, p + d(p) + r(p)),
                              SubSeq(rest, 1, line)>>]

\* get_info_inds without the annotations of label_store 0 in rm_inds
get_info_inds_notes_only(samp, store) ==
    LET s0_inds   == {k \in 0..(Len(samp) - 1) : samp[k + 1] = BZero}
        note_inds == {k \in 0..(Len(store) - 1) : store[k + 1] = 22}
    IN  [potential_info_inds |-> s0_inds \cap note_inds,
         rm_inds |-> s0_inds \cap note_inds]

\* get_info_inds, lines 1714-1737 (0-based indices)
get_info_inds(samp, store) ==
    LET s0_inds     == {k \in 0..(Len(samp) - 1) : samp[k + 1] = BZero}
        note_inds   == {k \in 0..(Len(store) - 1) : store[k + 1] = 22}
        notann_inds == {k \in 0..(Len(store) - 1) : store[k + 1] = 0}
    IN  [potential_info_inds |-> s0_inds \cap note_inds,
         rm_inds |-> (s0_inds \cap note_inds) \cup notann_inds]

\* The loop of lines 1765-1768 from index k on; err: aux_note[k] is read
\* past the end of the list, or a note is not a definition.
RECURSIVE read_definitions(_, _, _)
read_definitions(an, k, labels) ==
    IF k >= Len(an) THEN [err |-> TRUE, i |-> k, custom_labels |-> labels]
    ELSE IF an[k + 1] = DefinitionsEnd
    THEN [err |-> FALSE, i |-> k, custom_labels |-> labels]
    ELSE LET m == rx_custom_label_findall(an[k + 1])
         IN  IF ~m.found THEN [err |-> TRUE, i |-> k, custom_labels |-> labels]
             ELSE read_definitions(an, k + 1, Append(labels, m.label))

\* One pass of the loop of extract_ann_info, lines 1753-1771
extract_ann_info_pass(an, k, f, labels) ==
    LET same == [err |-> FALSE, i |-> k, fs |-> f, custom_labels |-> labels]
    IN  IF k >= Len(an) THEN [same EXCEPT !.err = TRUE]
        ELSE IF ~StartsWith(an[k + 1], InfoPrefix) THEN [same EXCEPT !.i = k + 1]
        ELSE IF NotFs(f) /\ rx_fs_findall(an[k + 1]).found
        THEN [same EXCEPT !.fs = Some(FsValue(rx_fs_findall(an[k + 1]))), !.i = k + 1]
        ELSE IF an[k + 1] = DefinitionsStart
        THEN LET r == read_definitions(an, k + 1, labels)
             IN  [err |-> r.err, i |-> r.i + 1, fs |-> f, custom_labels |-> r.custom_labels]
        ELSE same

\* rm_empty_indices, lines 1778-1791, for one list; err: the list has no
\* element at an index that is kept.
rm_empty_indices(rm, n, a) ==
    LET keep_inds == SelectSeq([k \in 1..n |-> k - 1], LAMBDA k : k \notin rm)
    IN  IF rm = {} THEN [err |-> FALSE, list |-> a]
        ELSE IF \E j \in 1..Len(keep_inds) : keep_inds[j] >= Len(a)
        THEN [err |-> TRUE, list |-> <<>>]
        ELSE [err |-> FALSE, list |-> [j \in 1..Len(keep_inds) |-> a[keep_inds[j] + 1]]]

---------------------------------------------------------------------------
(* rdann after the Annotation object is made: the sample range and the     *)
(* data fields that are returned.                                          *)

\* Lines 15-16
ANN_DATA_FIELDS ==
    <<"sample", "symbol", "subtype", "chan", "num", "aux_note",
      "label_store", "description">>

\* check_read_inputs, lines 1515-1532, for data_fields None or a set of names
check_read_inputs(sf, st, df) ==
    LET fields == IF df = None \/ df[1] = {}
                  THEN Range(SubSeq(ANN_DATA_FIELDS, 1, 6))
                  ELSE df[1]
    IN  [err |-> \/ (st # 0 /\ st <= sf)
                 \/ sf < 0
                 \/ ~(fields \subseteq Range(ANN_DATA_FIELDS)),
         data_fields |-> fields]

\* An Annotation object none of whose fields is set
NoAnnotation ==
    [sample |-> None, symbol |-> None, label_store |-> None, description |-> None,
     subtype |-> None, chan |-> None, num |-> None, aux_note |-> None,
     fs |-> None, custom_labels |-> None]

\* The custom_labels that rdann hands to Annotation: the tuples that
\* rx_custom_label found, lines 1768 and 1436-1440
CustomOfRead(labels) ==
    IF labels = None THEN None
    ELSE Some([i \in 1..Len(labels[1]) |->
                  CustomRow(Some(labels[1][i][1]), labels[1][i][2], labels[1][i][3])])

NoAnn == [err |-> TRUE, ann |-> NoAnnotation]

\* The upper limit of apply_range is sampto itself
apply_range_upper_exclusive(samp, upper, k) == BLt(samp[k + 1], upper)

\* np.where(self.sample <= sampto), line 233: whether index k is in it
apply_range_upper(samp, upper, k) == BLe(samp[k + 1], upper)

\* apply_range, lines 225-239
apply_range(a, sf, st) ==
    LET samp      == a.sample[1]
        upper     == IF st # 0 THEN BInt(st) ELSE Last(samp)
        kept_inds == SelectSeq([k \in 1..Len(samp) |-> k - 1],
                               LAMBDA k : /\ BLe(BInt(sf), samp[k + 1])
                                          /\ apply_range_upper(samp, upper, k))
        short(f)  == \E j \in 1..Len(kept_inds) : kept_inds[j] >= Len(a[f][1])
        take(f)   == Some([j \in 1..Len(kept_inds) |-> a[f][1][kept_inds[j] + 1]])
    IN  IF st = 0 /\ samp = <<>> THEN NoAnn           \* self.sample[-1], line 230
        ELSE IF \/ short("label_store") \/ short("subtype") \/ short("chan")
                \/ short("num") \/ short("aux_note")
        THEN NoAnn
        ELSE [err |-> FALSE,
              ann |-> [a EXCEPT !.sample = take("sample"),
                                !.label_store = take("label_store"),
                                !.subtype = take("subtype"),
                                !.chan = take("chan"),
                                !.num = take("num"),
                                !.aux_note = take("aux_note")]]

\* contained_data_fields, lines 241-245
contained_data_fields(a) == {f \in Range(ANN_DATA_FIELDS) : a[f] # None}

\* set_label_fields, lines 944-961; the label map is made once for each
\* field that is converted and is the same every time
set_label_fields(a, label_fields) ==
    LET contained == contained_label_fields(a)
        missing   == {f \in label_fields : ~Truthy(a[f])}
        from(map, f) == convert_label_attribute(map.map, a[contained[1]][1],
                                                contained[1], f)
        set(map, f, old) == IF f \in missing THEN Some(from(map, f).values) ELSE old
    IN  IF contained = <<>> THEN NoAnn                \* line 956
        ELSE IF missing = {} THEN [err |-> FALSE, ann |-> a]
        ELSE CHOOSE r \in
                 { IF map.err THEN NoAnn
                   ELSE IF \E f \in missing : from(map, f).err THEN NoAnn
                   ELSE [err |-> FALSE,
                         ann |-> [a EXCEPT
                                    !.label_store = set(map, "label_store", @),
                                    !.symbol = set(map, "symbol", @),
                                    !.description = set(map, "description", @)]] :
                   map \in {create_label_map(a)} } : TRUE

\* The fields that line 941 deletes
set_data_fields_remainder(a, df, contained) == contained \ df

\* _set_data_fields, lines 924-942, with rm_remainder = True
set_data_fields(a, df) ==
    LET set_fields == df \ contained_data_fields(a)
        removed(r) == set_data_fields_remainder(a, df, contained_data_fields(r.ann))
        without(r, f) == IF f \in removed(r) THEN None ELSE r.ann[f]
    IN  IF ~(set_fields \subseteq Range(ANN_LABEL_FIELDS)) THEN NoAnn
        ELSE CHOOSE x \in
                 { IF r.err THEN NoAnn
                   ELSE [err |-> FALSE,
                         ann |-> [r.ann EXCEPT
                                    !.sample = without(r, "sample"),
                                    !.symbol = without(r, "symbol"),
                                    !.subtype = without(r, "subtype"),
                                    !.chan = without(r, "chan"),
                                    !.num = without(r, "num"),
                                    !.aux_note = without(r, "aux_note"),
                                    !.label_store = without(r, "label_store"),
                                    !.description = without(r, "description")]] :
                   r \in {set_label_fields(a, set_fields)} } : TRUE

---------------------------------------------------------------------------
(* Annotation.wrann, statement by statement, and rdann on what it wrote.   *)

\* The statements of wrann and wr_ann_file with the file opened first
WRANN_STEPS_open_first ==
    <<"open", "vital", "check_fields", "custom_labels_to_df", "create_label_map",
      "convert_label_attribute", "check_field_cohesion", "calc_fs_bytes",
      "calc_cl_bytes", "calc_core_bytes", "tofile">>

\* The statements of wrann (lines 264-290) and of wr_ann_file (lines
\* 676-698) in the order they run.
WRANN_STEPS == <<"vital", "check_fields", "custom_labels_to_df", "create_label_map",
                 "convert_label_attribute", "check_field_cohesion", "calc_fs_bytes",
                 "calc_cl_bytes", "calc_core_bytes", "open", "tofile">>

\* The statement that runs after statement s; "written" after the last
StepAfter(s) ==
    LET k == CHOOSE j \in 1..Len(WRANN_STEPS) : WRANN_STEPS[j] = s
    IN  IF k = Len(WRANN_STEPS) THEN "written" ELSE WRANN_STEPS[k + 1]

\* The statement at pc raises: the call ends there.
Raise ==
    /\ pc' = "wr_error"
    /\ failed_at' = pc
    /\ passed' = passed

Proceed ==
    /\ pc' = StepAfter(pc)
    /\ failed_at' = failed_at
    /\ passed' = passed \cup {pc}

\* Lines 264-270: the presence of a label field
Vital ==
    /\ pc = "vital"
    /\ IF contained_label_fields(ann) = <<>> THEN Raise ELSE Proceed
    /\ UNCHANGED <<decVars, infoVars, rdVars, libVars, ann, ann0, write_fs, label_map,
                   fs_bytes, cl_bytes, core_bytes, file, file0>>

\* Line 273
CheckFields ==
    /\ pc = "check_fields"
    /\ IF check_fields(ann) THEN Proceed ELSE Raise
    /\ UNCHANGED <<decVars, infoVars, rdVars, libVars, ann, ann0, write_fs, label_map,
                   fs_bytes, cl_bytes, core_bytes, file, file0>>

\* Line 276, _custom_labels_to_df (lines 496-531): the labels are checked
\* again; the data frame holds the same rows as the list.
CustomLabelsToDf ==
    /\ pc = "custom_labels_to_df"
    /\ IF Truthy(ann.custom_labels) /\ ~check_field_custom_labels(ann.custom_labels[1])
       THEN Raise ELSE Proceed
    /\ UNCHANGED <<decVars, infoVars, rdVars, libVars, ann, ann0, write_fs, label_map,
                   fs_bytes, cl_bytes, core_bytes, file, file0>>

\* The frame that the name ANN_LABELS is bound to, were label_map the
\* frame itself
ANN_LABELS_after_merge_shared(base, merged) == merged

\* The frame that the name ANN_LABELS is bound to after _create_label_map:
\* label_map is a copy of it (line 636), so the rows entered at lines
\* 661-662 are entered in the copy
ANN_LABELS_after_merge(base, merged) == base

\* Line 279
CreateLabelMap ==
    /\ pc = "create_label_map"
    /\ LET r == create_label_map(ann)
       IN  IF r.err
           THEN Raise /\ label_map' = label_map /\ module_labels' = module_labels
           ELSE /\ Proceed
                /\ label_map' = Some(r.map)
                /\ module_labels' = ANN_LABELS_after_merge(module_labels, r.map)
    /\ UNCHANGED <<decVars, infoVars, rdVars, f2b, ann, ann0, write_fs,
                   fs_bytes, cl_bytes, core_bytes, file, file0>>

\* Lines 282-284: label_store is set from the first label field present
ConvertLabelAttribute ==
    /\ pc = "convert_label_attribute"
    /\ IF Truthy(ann.label_store)
       THEN Proceed /\ ann' = ann
       ELSE LET source_field == Head(contained_label_fields(ann))
                r == convert_label_attribute(label_map[1], ann[source_field][1],
                                             source_field, "label_store")
            IN  IF r.err
                THEN Raise /\ ann' = ann
                ELSE Proceed /\ ann' = [ann EXCEPT !.label_store = Some(r.values)]
    /\ UNCHANGED <<decVars, infoVars, rdVars, libVars, ann0, write_fs, label_map,
                   fs_bytes, cl_bytes, core_bytes, file, file0>>

\* Line 287
CheckFieldCohesion ==
    /\ pc = "check_field_cohesion"
    /\ IF check_field_cohesion(ann, label_map[1]) THEN Proceed ELSE Raise
    /\ UNCHANGED <<decVars, infoVars, rdVars, libVars, ann, ann0, write_fs, label_map,
                   fs_bytes, cl_bytes, core_bytes, file, file0>>

\* Lines 677-680
CalcFsBytes ==
    /\ pc = "calc_fs_bytes"
    /\ Proceed
    /\ fs_bytes' = Some(IF write_fs THEN calc_fs_bytes(ann) ELSE <<>>)
    /\ UNCHANGED <<decVars, infoVars, rdVars, libVars, ann, ann0, write_fs, label_map,
                   cl_bytes, core_bytes, file, file0>>

\* Line 682
CalcClBytes ==
    /\ pc = "calc_cl_bytes"
    /\ LET r == calc_cl_bytes(ann)
       IN  IF r.err
           THEN Raise /\ cl_bytes' = cl_bytes
           ELSE Proceed /\ cl_bytes' = Some(r.bytes)
    /\ UNCHANGED <<decVars, infoVars, rdVars, libVars, ann, ann0, write_fs, label_map,
                   fs_bytes, core_bytes, file, file0>>

\* self after calc_core_bytes, were the fields that _compact_fields sets to
\* None (lines 824, 839 and 1128-1130) set to None in self
calc_core_bytes_self_compacted(a, compact_annotation) ==
    [a EXCEPT !.chan     = IF compact_annotation.chan = None THEN None ELSE @,
              !.num      = IF compact_annotation.num = None THEN None ELSE @,
              !.subtype  = IF compact_annotation.subtype = None THEN None ELSE @,
              !.aux_note = IF compact_annotation.aux_note = None THEN None ELSE @]

\* self after calc_core_bytes: _compact_fields is called on
\* copy.deepcopy(self) (lines 770-771) and no other statement of the
\* function assigns to self or to an element of its lists
calc_core_bytes_self(a, compact_annotation) == a

\* Line 684
CalcCoreBytes ==
    /\ pc = "calc_core_bytes"
    /\ LET r == calc_core_bytes(ann)
       IN  IF r.err
           THEN Raise /\ core_bytes' = core_bytes
           ELSE Proceed /\ core_bytes' = Some(r.bytes)
    /\ ann' = calc_core_bytes_self(ann, compact_fields(ann))
    /\ UNCHANGED <<decVars, infoVars, rdVars, libVars, ann0, write_fs, label_map,
                   fs_bytes, cl_bytes, file, file0>>

\* Line 693: open(..., 'wb') creates the file or empties it
Open ==
    /\ pc = "open"
    /\ Proceed
    /\ file' = Some(<<>>)
    /\ UNCHANGED <<decVars, infoVars, rdVars, libVars, ann, ann0, write_fs, label_map,
                   fs_bytes, cl_bytes, core_bytes, file0>>

\* Lines 697-698
ToFile ==
    /\ pc = "tofile"
    /\ Proceed
    /\ file' = Some(wr_ann_file_bytes(fs_bytes[1], cl_bytes[1], core_bytes[1]))
    /\ UNCHANGED <<decVars, infoVars, rdVars, libVars, ann, ann0, write_fs, label_map,
                   fs_bytes, cl_bytes, core_bytes, file0>>

\* np.fromfile(f, '<u1').reshape([-1, 2]), line 1543
BytePairs(bytes) == [k \in 1..(Len(bytes) \div 2) |-> <<bytes[2 * k - 1], bytes[2 * k]>>]

\* rdann on the file that was written: load_byte_pairs (lines 1534-1549) and
\* the first lines of extract_ann_data; reshape raises on an odd length.
LoadBytePairs ==
    /\ pc = "load"
    /\ IF Len(file[1]) % 2 = 1
       THEN /\ pc' = "rd_error"
            /\ UNCHANGED decVars
       ELSE /\ pc' = "core"
            /\ ExtractStart(BytePairs(file[1]), sampto)
    /\ UNCHANGED <<infoVars, wrVars, rdVars, libVars>>

\* Line 1412, and the first lines of extract_ann_info
GetInfoInds ==
    /\ pc = "extracted"
    /\ pc' = "info"
    /\ potential_info_inds' = get_info_inds(sample, label_store).potential_info_inds
    /\ rm_inds' = get_info_inds(sample, label_store).rm_inds
    /\ info_i' = 0
    /\ fs' = None
    /\ custom_labels' = <<>>
    /\ UNCHANGED <<decVars, wrVars, rdVars, libVars>>

\* The loop of extract_ann_info, one pass at a time, and lines 1773-1776
ExtractAnnInfo ==
    /\ pc = "info"
    /\ IF info_i < Cardinality(potential_info_inds)
       THEN LET r == extract_ann_info_pass(aux_note, info_i, fs, custom_labels)
            IN  /\ pc' = IF r.err THEN "rd_error" ELSE "info"
                /\ info_i' = r.i
                /\ fs' = r.fs
                /\ custom_labels' = r.custom_labels
       ELSE /\ pc' = "rm_empty"
            /\ custom_labels' = IF custom_labels = <<>> THEN None ELSE Some(custom_labels)
            /\ UNCHANGED <<info_i, fs>>
    /\ UNCHANGED <<potential_info_inds, rm_inds, decVars, wrVars, rdVars, libVars>>

\* Lines 1418-1440: the annotations of rm_inds are removed and the
\* Annotation object is made of what remains
RmEmptyIndices ==
    /\ pc = "rm_empty"
    /\ LET r(a) == rm_empty_indices(rm_inds, Len(sample), a)
       IN  IF \/ r(sample).err \/ r(label_store).err \/ r(subtype).err
              \/ r(chan).err \/ r(num).err \/ r(aux_note).err
           THEN /\ pc' = "rd_error"
                /\ UNCHANGED <<sample, label_store, subtype, chan, num, aux_note,
                               annotation>>
           ELSE /\ pc' = "read"
                /\ annotation' = Some([NoAnnotation EXCEPT
                       !.sample = Some(r(sample).list),
                       !.label_store = Some(r(label_store).list),
                       !.subtype = Some(r(subtype).list),
                       !.chan = Some(r(chan).list),
                       !.num = Some(r(num).list),
                       !.aux_note = Some(r(aux_note).list),
                       !.fs = fs,
                       !.custom_labels = CustomOfRead(custom_labels)])
                /\ sample' = r(sample).list
                /\ label_store' = r(label_store).list
                /\ subtype' = r(subtype).list
                /\ chan' = r(chan).list
                /\ num' = r(num).list
                /\ aux_note' = r(aux_note).list
    /\ UNCHANGED <<file_bytes, sampto, bpi, sample_total, update, supplied,
                   infoVars, wrVars, sampfrom, shift_samps, data_fields, libVars>>

\* Line 1400
CheckReadInputs ==
    /\ pc = "written"
    /\ LET r == check_read_inputs(sampfrom, sampto, data_fields)
       IN  /\ pc' = IF r.err THEN "rd_error" ELSE "load"
           /\ data_fields' = IF r.err THEN data_fields ELSE Some(r.data_fields)
    /\ UNCHANGED <<decVars, infoVars, wrVars, sampfrom, shift_samps, annotation,
                   libVars>>

\* Lines 1443-1449: the range, then the shift
ApplyRange ==
    /\ pc = "read"
    /\ LET r == IF sampfrom # 0 \/ sampto # 0
                THEN apply_range(annotation[1], sampfrom, sampto)
                ELSE [err |-> FALSE, ann |-> annotation[1]]
           shifted == IF shift_samps /\ Len(sample) > 0 /\ sampfrom # 0
                      THEN [r.ann EXCEPT !.sample =
                               Some([i \in 1..Len(@[1]) |-> BSub(@[1][i], BInt(sampfrom))])]
                      ELSE r.ann
       IN  IF r.err
           THEN pc' = "rd_error" /\ annotation' = annotation
           ELSE pc' = "ranged" /\ annotation' = Some(shifted)
    /\ UNCHANGED <<decVars, infoVars, wrVars, sampfrom, shift_samps, data_fields,
                   libVars>>

\* Line 1452, and the return of line 1454
SetDataFields ==
    /\ pc = "ranged"
    /\ \E r \in {set_data_fields(annotation[1], data_fields[1])} :
          IF r.err
          THEN pc' = "rd_error" /\ annotation' = annotation
          ELSE pc' = "returned" /\ annotation' = Some(r.ann)
    /\ UNCHANGED <<decVars, infoVars, wrVars, sampfrom, shift_samps, data_fields,
                   libVars>>

---------------------------------------------------------------------------
(* The states of the variables of a call that is not running.              *)

InfoIdle ==
    /\ potential_info_inds = {}
    /\ rm_inds = {}
    /\ info_i = 0
    /\ fs = None
    /\ custom_labels = <<>>

WrIdle ==
    /\ ann = NoAnnotation
    /\ ann0 = NoAnnotation
    /\ write_fs = FALSE
    /\ label_map = None
    /\ fs_bytes = None
    /\ cl_bytes = None
    /\ core_bytes = None
    /\ file = None
    /\ file0 = None
    /\ failed_at = ""
    /\ passed = {}

RdIdle ==
    /\ sampfrom = 0
    /\ shift_samps = FALSE
    /\ data_fields = None
    /\ annotation = None

LibIdle ==
    /\ module_labels = ANN_LABELS
    /\ f2b = None

DecIdle ==
    /\ file_bytes = <<>>
    /\ sampto = 0
    /\ bpi = 0
    /\ sample_total = BZero
    /\ sample = <<>>
    /\ label_store = <<>>
    /\ subtype = <<>>
    /\ chan = <<>>
    /\ num = <<>>
    /\ aux_note = <<>>
    /\ update = AllUpdate
    /\ supplied = <<>>

---------------------------------------------------------------------------
(* Byte streams for the decoder: every concatenation of at most MaxTokens  *)
(* of the word groups below, followed by the zero pair that ends a file.   *)

EventWord(d, c) == << <<d % 256, ((d \div 256) % 4) + 4 * c>> >>

SkipWords(v) == << <<0, 236>>, <<Byte2(v), Byte3(v)>>, <<Byte0(v), Byte1(v)>> >>

AuxWords(text) ==
    LET bytes == text \o (IF Len(text) % 2 = 1 THEN <<0>> ELSE <<>>)
    IN  << <<Len(text), 252>> >> \o [k \in 1..(Len(bytes) \div 2) |-> <<bytes[2 * k - 1], bytes[2 * k]>>]

DecTokens ==
    { EventWord(5, 1),            \* sample difference 5, label_store 1
      SkipWords(BInt(2000)),      \* SKIP +2000
      SkipWords(BInt(-10)),       \* SKIP -10
      << <<3, 248>> >>,           \* chan 3
      << <<5, 244>> >>,           \* subtype 5
      << <<2, 240>> >>,           \* num 2
      AuxWords(<<65>>),           \* aux_note 'A'
      << <<3, 252>> >>,           \* aux_note of length 3, its text missing
      << <<0, 0>> >> }            \* the zero pair

DecStreams == {Flatten(ts) \o << <<0, 0>> >> : ts \in SeqsUpTo(DecTokens, MaxTokens)}

DecSamptos == {0, 10}

InitDec ==
    /\ pc = "core"
    /\ file_bytes \in DecStreams
    /\ sampto \in DecSamptos
    /\ bpi = 0
    /\ sample_total = BZero
    /\ sample = <<>>
    /\ label_store = <<>>
    /\ subtype = <<>>
    /\ chan = <<>>
    /\ num = <<>>
    /\ aux_note = <<>>
    /\ update = AllUpdate
    /\ supplied = <<>>
    /\ InfoIdle
    /\ WrIdle
    /\ RdIdle
    /\ LibIdle

NextDec == ProcCore \/ ProcExtra \/ UpdateExtra

SpecDec == InitDec /\ [][NextDec]_vars

---------------------------------------------------------------------------
(* The Annotation objects that are written: a few families, each varying   *)
(* some fields of a plain object of n annotations at samples 5, 10, ...    *)

SeqsOfLen(S, n) == {q \in SeqsUpTo(S, n) : Len(q) = n}

Optional(S) == {None} \cup {Some(x) : x \in S}

\* 'N', '"' (the comment label, store 22) and 'Z', which no label defines
SymN == <<78>>

SymComment == <<34>>

SymUndefined == <<90>>

\* n annotations 'N' at samples 5, 10, ...
Plain(n) ==
    [NoAnnotation EXCEPT !.sample = Some([k \in 1..n |-> BInt(5 * k)]),
                         !.symbol = Some([k \in 1..n |-> SymN])]

\* Sample numbers: negative, 0, differences of 1023 and 1024 from 5, 2**31
SampVals == {BInt(-1), BZero, BInt(5), BInt(1028), BInt(1029), B2147483648,
             BAdd(B2147483648, BInt(5))}

SampleFamily ==
    {[Plain(IF s = None \/ s[1] = <<>> THEN 1 ELSE Len(s[1])) EXCEPT !.sample = s] :
        s \in Optional(SeqsUpTo(SampVals, MaxEvents))}

\* Annotations at samples 0, 5, ... labelled by any of the three label fields
SymVals == {SymN, SymComment, SymUndefined}

StoreVals == {0, 1, 22, 49, 50}

\* 'Normal beat' and 'x'
DescVals == {ANN_LABELS[1].description, <<120>>}

LabelFamily ==
    UNION {{[NoAnnotation EXCEPT !.sample = Some([k \in 1..n |-> BInt(5 * (k - 1))]),
                                 !.symbol = sy, !.label_store = ls, !.description = de] :
              sy \in Optional(SeqsOfLen(SymVals, n)),
              ls \in Optional(SeqsOfLen(StoreVals, n)),
              de \in Optional({[k \in 1..n |-> d] : d \in DescVals})} : n \in 1..MaxEvents}

\* The optional fields, with values the checks accept
ExtraFamily ==
    UNION {{[Plain(n) EXCEPT !.subtype = st, !.chan = ch, !.num = nm, !.aux_note = an] :
              st \in Optional(SeqsOfLen({0, 5}, n)),
              ch \in Optional(SeqsOfLen({0, 3}, n)),
              nm \in Optional(SeqsOfLen({0, 7}, n)),
              an \in Optional(SeqsOfLen({<<>>, <<65>>}, n))} : n \in 1..MaxEvents}

\* One field with a value at or past the limit of its check, or a length
\* that is not the number of annotations
LimitFamily ==
    {[Plain(1) EXCEPT !.subtype = Some(<<v>>)] : v \in {-1, 127, 128}}
    \cup {[Plain(1) EXCEPT !.num = Some(<<v>>)] : v \in {-1, 127, 128}}
    \cup {[Plain(1) EXCEPT !.chan = Some(<<v>>)] : v \in {-1, 255, 256}}
    \cup {[Plain(1) EXCEPT !.aux_note = Some(<<v>>)] : v \in {<<9>>, <<65, 66>>}}
    \cup {[Plain(1) EXCEPT !.aux_note = Some(<<>>)]}
    \cup {[Plain(1) EXCEPT !.symbol = Some(<<v>>)] :
             v \in {<<>>, <<32>>, <<78, 78, 78>>, <<78, 78, 78, 78>>}}
    \cup {[Plain(1) EXCEPT !.chan = Some(<<3, 3>>)], [Plain(1) EXCEPT !.symbol = Some(<<SymN, SymN>>)]}

\* Comment annotations at sample 0 whose notes look like file information
InfoNotes == {<<65>>, FsPrefix \o <<55>>, DefinitionsStart, DefinitionsEnd,
              <<49, 32, 81, 32, 113>>, InfoPrefix \o <<120>>}

InfoFamily ==
    UNION {{[NoAnnotation EXCEPT !.sample = Some([k \in 1..n |-> BZero]),
                                 !.symbol = Some([k \in 1..n |-> SymComment]),
                                 !.aux_note = Some(an)] :
              an \in SeqsOfLen(InfoNotes, n)} : n \in 1..MaxEvents}

FsFamily ==
    {[a EXCEPT !.fs = f] :
        a \in {Plain(1), [Plain(1) EXCEPT !.sample = Some(<<BZero>>)],
               [Plain(1) EXCEPT !.aux_note = Some(<<FsPrefix \o <<55>>>>)]},
        f \in Optional({-1, 0, 7, 250})}

\* Custom labels: k pairs with the symbols '0', '1', ... that no standard
\* label has, a pair with the symbol 'N', pairs that fail their check, and
\* triplets with one or two label stores
CustomPairs(k) == [j \in 1..k |-> CustomRow(None, <<47 + j>>, <<99>>)]

CustomLists ==
    {CustomPairs(k) : k \in 0..MaxCustom}
    \cup {<<CustomRow(None, SymN, <<99>>)>>,
          <<CustomRow(None, <<48>>, <<99>>), CustomRow(None, SymN, <<99>>)>>,
          <<CustomRow(None, <<48>>, <<99>>), CustomRow(None, <<48>>, <<100>>)>>,
          <<CustomRow(None, <<32>>, <<99>>)>>,
          <<CustomRow(None, <<48, 49>>, <<99>>)>>,
          <<CustomRow(None, <<48>>, <<99>>), CustomRow(Some(42), <<49>>, <<99>>)>>}
    \cup {<<CustomRow(Some(c), <<48>>, <<99>>)>> : c \in {0, 1, 42, 49, 50}}
    \cup {<<CustomRow(Some(c), <<48>>, <<99>>), CustomRow(Some(d), <<49>>, <<99>>)>> :
             c \in {1, 49}, d \in {0, 49, 50}}

CustomFamily ==
    {[a EXCEPT !.custom_labels = Some(cl)] :
        a \in {Plain(1), [Plain(1) EXCEPT !.symbol = Some(<<<<48>>>>)],
               [Plain(1) EXCEPT !.symbol = None, !.label_store = Some(<<1>>)]},
        cl \in CustomLists}

Annotations ==
    SampleFamily \cup LabelFamily \cup ExtraFamily \cup LimitFamily \cup InfoFamily
    \cup FsFamily \cup CustomFamily

\* The annotation file before the call: none, or one of an earlier write
OldFiles == {None, Some(<<5, 4, 0, 0>>)}

InitWr ==
    /\ pc = Head(WRANN_STEPS)
    /\ ann \in Annotations
    /\ ann0 = ann
    /\ write_fs \in (IF ann \in FsFamily THEN BOOLEAN ELSE {FALSE})
    /\ label_map = None
    /\ fs_bytes = None
    /\ cl_bytes = None
    /\ core_bytes = None
    /\ file \in OldFiles
    /\ file0 = file
    /\ failed_at = ""
    /\ passed = {}
    /\ DecIdle
    /\ InfoIdle
    /\ RdIdle
    /\ LibIdle

NextWr ==
    \/ Vital \/ CheckFields \/ CustomLabelsToDf \/ CreateLabelMap
    \/ ConvertLabelAttribute \/ CheckFieldCohesion
    \/ CalcFsBytes \/ CalcClBytes \/ CalcCoreBytes \/ Open \/ ToFile
    \/ LoadBytePairs \/ ProcCore \/ ProcExtra \/ UpdateExtra
    \/ CheckReadInputs \/ GetInfoInds \/ ExtractAnnInfo \/ RmEmptyIndices
    \/ ApplyRange \/ SetDataFields

SpecWr == InitWr /\ [][NextWr]_vars


\* The pair at 0-based index k of the stream
Pair(k) == file_bytes[k + 1]

\* The value of the SKIP that begins at pair index k: the two pairs after it
\* as one 32-bit number, less 2**32 when that exceeds 2**31 - 1
SkipValue(k) ==
    LET unsigned == Big(Pair(k + 1)[1] + 256 * Pair(k + 1)[2],
                        Pair(k + 2)[1] + 256 * Pair(k + 2)[2])
    IN  IF BLt(B2147483647, unsigned) THEN BSub(unsigned, B4294967296) ELSE unsigned

\* The ten bits of sample difference of the pair at index k
TenBits(k) == BInt(Pair(k)[1] + 256 * (Pair(k)[2] % 4))

\* C18: when the pair where an annotation begins has tag 59, the decoder adds
\* to the running sample total the 32-bit value of the next two pairs (less
\* 2**32 when above 2**31 - 1) and the ten bits of the pair after them, takes
\* the tag of that pair for label_store, moves on by four pairs, and appends
\* one annotation
C18_SkipDecoding ==
    [][ (pc = "core" /\ pc' = "extra" /\ Pair(bpi)[2] \div 4 = 59) =>
            /\ bpi' = bpi + 4
            /\ sample_total' = BAdd(sample_total, BAdd(SkipValue(bpi), TenBits(bpi + 3)))
            /\ sample' = Append(sample, sample_total')
            /\ label_store' = Append(label_store, Pair(bpi + 3)[2] \div 4) ]_vars

\* A SKIP with a negative value has been decoded: the annotation that begins
\* with it has a smaller sample number than the one before it
C18_Witness ==
    /\ pc = "extra"
    /\ Len(sample) >= 2
    /\ Len(supplied) = Len(sample)
    /\ Pair(Last(supplied).start)[2] \div 4 = 59
    /\ bpi = Last(supplied).start + 4
    /\ BLt(SkipValue(Last(supplied).start), BZero)
    /\ BLt(Last(sample), sample[Len(sample) - 1])

\* The annotation that was decoded last has been removed by the sampto cut
CutHappened == Len(supplied) = Len(sample) + 1

C15_StopsAtZeroWord ==
    \A i \in 1..Len(supplied) : \A j \in 1..Len(supplied) :
        (i < j /\ j <= Len(label_store) /\ label_store[j] # 0) =>
            file_bytes[supplied[i].start + 1] # <<0, 0>>

\* C16: the frame bound to the module's name ANN_LABELS is the table of
\* lines 66-110 in every state, whatever wrann and rdann have done and
\* whether or not they raised
C16_BaseTableUnchanged == module_labels = ANN_LABELS

\* wrann has made a label map with custom labels in it and has then raised
C16_Witness ==
    /\ pc = "wr_error"
    /\ label_map # None
    /\ label_map[1] # ANN_LABELS
    /\ module_labels = ANN_LABELS
---------------------------------------------------------------------------
(* field2bytes('samptype', [sd, symbol]) called by itself (SpecF2B), for a *)
(* few sample differences and every symbol of ANN_LABELS and one more.     *)

F2BDiffs ==
    {BInt(-1024), BInt(-1), BZero, BInt(1), BInt(1023), BInt(1024), BInt(2000),
     B2147483647}

F2BSymbols == Range(Column(ANN_LABELS, "symbol")) \cup {SymUndefined}

\* Line 1136 with field = 'samptype', to the return of the function
Field2Bytes ==
    /\ pc = "field2bytes"
    /\ LET r == field2bytes_samptype(f2b[1].sd, f2b[1].symbol)
       IN  IF r.err
           THEN pc' = "f2b_error" /\ f2b' = f2b
           ELSE pc' = "f2b_returned"
                /\ f2b' = Some([f2b[1] EXCEPT !.data_bytes = Some(r.bytes)])
    /\ UNCHANGED <<decVars, infoVars, wrVars, rdVars, module_labels>>

InitF2B ==
    /\ pc = "field2bytes"
    /\ f2b \in {Some([sd |-> d, symbol |-> s, data_bytes |-> None]) :
                   d \in F2BDiffs, s \in F2BSymbols}
    /\ module_labels = ANN_LABELS
    /\ DecIdle
    /\ InfoIdle
    /\ WrIdle
    /\ RdIdle

NextF2B == Field2Bytes

SpecF2B == InitF2B /\ [][NextF2B]_vars

\* C17: for a sample difference d, field2bytes gives one pair (d and the
\* label store) when 0 <= d <= 1023 and, for every other d, negative d
\* included, the SKIP pair (0, 236), the four bytes of d as an unsigned
\* 32-bit number and a pair with difference 0 and the label store
C17_WordChoice ==
    pc = "f2b_returned" =>
        LET d        == f2b[1].sd
            typecode == typecodes(f2b[1].symbol)[1]
            bytes    == f2b[1].data_bytes[1]
        IN  IF BLe(BZero, d) /\ BLe(d, B1023)
            THEN bytes = <<Byte0(d), Byte1(d) + 4 * typecode>>
            ELSE bytes = <<0, 236, Byte2(d), Byte3(d), Byte0(d), Byte1(d),
                           0, 4 * typecode>>

---------------------------------------------------------------------------
(* rdann on a file that is there (SpecRd): every concatenation of at most  *)
(* MaxReadTokens of the word groups below and the zero pair, read with a   *)
(* few sample ranges and selections of data fields.                        *)

ReadTokens ==
    { EventWord(5, 1),            \* sample difference 5, label_store 1
      EventWord(5, 42),           \* label_store 42, which ANN_LABELS does not define
      SkipWords(BInt(-3)),        \* SKIP -3
      <<<<5, 244>>>>,             \* subtype = 5
      AuxWords(<<65>>) }          \* aux_note 'A'

PairsToBytes(pairs) == [k \in 1..(2 * Len(pairs)) |-> pairs[(k + 1) \div 2][2 - (k % 2)]]

ReadFiles ==
    {PairsToBytes(Flatten(ts) \o << <<0, 0>> >>) : ts \in SeqsUpTo(ReadTokens, MaxReadTokens)}

ReadSampfroms == {0, 5, 7}

ReadSamptos == {0, 5, 10}

ReadDataFields ==
    {None, Some({"sample"}), Some({"sample", "label_store"}),
     Some({"symbol", "description"})}

InitRd ==
    /\ pc = "written"
    /\ file \in {Some(f) : f \in ReadFiles}
    /\ file0 = file
    /\ sampfrom \in ReadSampfroms
    /\ sampto \in ReadSamptos
    /\ shift_samps \in BOOLEAN
    /\ data_fields \in ReadDataFields
    /\ annotation = None
    /\ ann = NoAnnotation
    /\ ann0 = NoAnnotation
    /\ write_fs = FALSE
    /\ label_map = None
    /\ fs_bytes = None
    /\ cl_bytes = None
    /\ core_bytes = None
    /\ failed_at = ""
    /\ passed = {}
    /\ file_bytes = <<>>
    /\ bpi = 0
    /\ sample_total = BZero
    /\ sample = <<>>
    /\ label_store = <<>>
    /\ subtype = <<>>
    /\ chan = <<>>
    /\ num = <<>>
    /\ aux_note = <<>>
    /\ update = AllUpdate
    /\ supplied = <<>>
    /\ InfoIdle
    /\ LibIdle

NextRd ==
    \/ CheckReadInputs \/ LoadBytePairs \/ ProcCore \/ ProcExtra \/ UpdateExtra
    \/ GetInfoInds \/ ExtractAnnInfo \/ RmEmptyIndices
    \/ ApplyRange \/ SetDataFields

SpecRd == InitRd /\ [][NextRd]_vars

---------------------------------------------------------------------------
(* Properties of the decoder (SpecDec).                                    *)

\* An annotation is complete when the loop is back at its test or has ended.
EventsComplete == pc \in {"core", "extracted"}

\* The value a carried field holds for annotation i: the value its own pair
\* supplied, else the value of annotation i - 1 (0 for the first).
CarryExpected(l, f, i) ==
    IF supplied[i][f] # {} THEN supplied[i][f]
    ELSE IF i = 1 THEN {0} ELSE {l[i - 1]}

\* The value a reset field holds for annotation i: the value its own pair
\* supplied, else the default.
ResetExpected(f, i, default) ==
    IF supplied[i][f] # {} THEN supplied[i][f] ELSE {default}

\* C2: for every decoded annotation i, chan[i] and num[i] are the value an
\* extra-field pair of annotation i supplied, else the value of annotation
\* i - 1 (0 for the first); subtype[i] and aux_note[i] are the value supplied
\* for annotation i, else 0 / the empty string.
C2_CarryOver ==
    EventsComplete =>
        \A i \in 1..Len(sample) :
            /\ i <= Len(chan) /\ chan[i] \in CarryExpected(chan, "chan", i)
            /\ i <= Len(num) /\ num[i] \in CarryExpected(num, "num", i)
            /\ i <= Len(subtype) /\ subtype[i] \in ResetExpected("subtype", i, 0)
            /\ i <= Len(aux_note) /\ aux_note[i] \in ResetExpected("aux_note", i, <<>>)

\* The annotation that starts at pair index i starts with a SKIP pair whose
\* 32-bit value is negative (2**31 or more as an unsigned value).
NegativeSkipAt(i) ==
    /\ i + 1 < NPairs(file_bytes)
    /\ Shr2(FB(file_bytes, i, 1)) = 59
    /\ FB(file_bytes, i + 1, 1) >= 128

\* C3 (as stated): the sample sequence the decoder returns never decreases.
C3_DecodeMonotone ==
    pc = "extracted" =>
        \A i \in 2..Len(sample) : BLe(sample[i - 1], sample[i])

\* C3 (amended): the decoded sample sequence decreases only at an annotation
\* that starts with a SKIP pair holding a negative 32-bit value; every other
\* annotation has a sample number no smaller than its predecessor's.
C3_DecreaseOnlyAtNegativeSkip ==
    \A i \in 2..Len(sample) :
        BLt(sample[i], sample[i - 1]) => NegativeSkipAt(supplied[i].start)

\* A decoded stream whose second annotation lies before the first and whose
\* third lies after the second.
C3_Witness ==
    /\ pc = "extracted"
    /\ Len(sample) >= 3
    /\ BLt(sample[2], sample[1])
    /\ BLt(sample[2], sample[3])

---------------------------------------------------------------------------
(* Properties of wrann and of rdann on the file it wrote (SpecWr).         *)

\* The values rdann gives a field that the written object did not have
Written(field, default) ==
    IF ann0[field] = None THEN [k \in 1..Len(ann0.sample[1]) |-> default]
    ELSE ann0[field][1]

\* C1: when rdann has read the file that wrann wrote for an object labelled
\* by its symbols, its annotations are those of the written object: the
\* same samples, label stores, subtype, chan, num and aux_note, in the same
\* order and number.
C1_RoundTrip ==
    (pc = "read" /\ ann0.label_store = None) =>
        /\ sample = ann0.sample[1]
        /\ label_store = ann.label_store[1]
        /\ subtype = Written("subtype", 0)
        /\ chan = Written("chan", 0)
        /\ num = Written("num", 0)
        /\ aux_note = Written("aux_note", <<>>)

\* C4: the label_store of every annotation read from a written file that
\* holds annotations only (the tag of its sample pair) is the label_store
\* of that annotation in the written object.
C4_TagIsStoreCode ==
    (pc = "extracted" /\ fs_bytes = Some(<<>>) /\ cl_bytes = Some(<<>>)) =>
        label_store = ann.label_store[1]

\* The statements that must have succeeded before the file is opened
BeforeOpen == {"vital", "check_fields", "custom_labels_to_df", "create_label_map",
               "convert_label_attribute", "check_field_cohesion", "calc_fs_bytes",
               "calc_cl_bytes", "calc_core_bytes"}

\* C5: the file changes only once every check, the label map, the cohesion
\* check and the computation of all bytes have succeeded; a call that
\* raises leaves the file as it was; and a file that wrann has left holds
\* the whole stream.
C5_AllOrNothing ==
    /\ [](pc = "wr_error" => file = file0)
    /\ [](pc = "written" =>
             file = Some(wr_ann_file_bytes(fs_bytes[1], cl_bytes[1], core_bytes[1])))
    /\ [][file' # file => BeforeOpen \subseteq passed /\ failed_at' = ""]_vars

\* A call that raised while computing the bytes, an older file in place
C5_Witness ==
    /\ pc = "wr_error"
    /\ failed_at = "calc_core_bytes"
    /\ file0 # None
    /\ file = file0

\* The custom labels of the written object are pairs / are triplets
WrittenPairs == Truthy(ann0.custom_labels) /\ AllPairs(ann0.custom_labels[1])

WrittenTriplets == Truthy(ann0.custom_labels) /\ AllTriplets(ann0.custom_labels[1])

DistinctColumn(frame, f) == Cardinality(Range(Column(frame, f))) = Len(frame)

\* C6: a label map made with custom labels has pairwise distinct label
\* stores, pairwise distinct symbols, and every label store in 1..49.
C6_MergedTableInvariant ==
    (Truthy(ann0.custom_labels) /\ label_map # None) =>
        /\ DistinctColumn(label_map[1], "label_store")
        /\ DistinctColumn(label_map[1], "symbol")
        /\ Range(Column(label_map[1], "label_store")) \subseteq LABEL_RANGE_LO..LABEL_RANGE_HI

\* The label store the label map gives custom label j
AssignedStore(j) ==
    LET cl == ann0.custom_labels[1]
    IN  {r.label_store : r \in {q \in Range(label_map[1]) :
            q.symbol = cl[j].symbol /\ q.description = cl[j].description}}

\* C7: the label stores given to k custom labels without label stores are
\* the k smallest label stores that no standard label has, in ascending order.
C7_AllocationSmallestAscending ==
    (WrittenPairs /\ label_map # None) =>
        LET k == Len(ann0.custom_labels[1])
            smallest == SubSeq(Ascending(Range(get_undefined_label_stores)), 1, k)
        IN  \A j \in 1..k : AssignedStore(j) = {smallest[j]}

\* The label stores that are undefined, unused by the annotations of the
\* object, or overwritten by its custom labels
CandidatePool(a) ==
    LET usefield == Head(contained_label_fields(a))
        base     == Range(Column(ANN_LABELS, usefield))
        custom   == IF usefield = "label_store" THEN {}
                    ELSE {a.custom_labels[1][j][usefield] : j \in 1..Len(a.custom_labels[1])}
    IN  Range(get_undefined_label_stores)
        \cup StoresOf(usefield, base \ Range(a[usefield][1]))
        \cup StoresOf(usefield, custom \cap base)

\* C8: making the label map of k custom labels without label stores raises
\* exactly when k exceeds the number of candidate label stores.
C8_AllocationFailure ==
    (WrittenPairs /\ "custom_labels_to_df" \in passed
       /\ (label_map # None \/ failed_at = "create_label_map")) =>
        (failed_at = "create_label_map"
            <=> Len(ann0.custom_labels[1]) > Cardinality(CandidatePool(ann0)))

InLabelRange(v) == LABEL_RANGE_LO <= v /\ v <= LABEL_RANGE_HI

\* C9: check_field accepts the label_store of an object, and the label
\* stores of custom labels, exactly when every value is in 1..49, and only
\* such values are past check_fields.
C9_StoreCodeBoundary ==
    /\ ann0.label_store # None =>
          (check_field_label_store(ann0.label_store[1])
              <=> \A v \in Range(ann0.label_store[1]) : InLabelRange(v))
    /\ WrittenTriplets =>
          (CustomStoresInRange(ann0.custom_labels[1])
              <=> \A v \in Range(CustomStores(ann0.custom_labels[1])) : InLabelRange(v))
    /\ "check_fields" \in passed =>
          /\ ann0.label_store # None =>
                \A v \in Range(ann0.label_store[1]) : InLabelRange(v)
          /\ WrittenTriplets =>
                \A v \in Range(CustomStores(ann0.custom_labels[1])) : InLabelRange(v)
    /\ (failed_at = "check_fields"
          /\ check_fields([ann0 EXCEPT !.label_store = None, !.custom_labels = None])
          /\ (WrittenTriplets =>
                /\ DistinctColumn(ann0.custom_labels[1], "label_store")
                /\ check_field_custom_labels(
                       [j \in 1..Len(ann0.custom_labels[1]) |->
                           [ann0.custom_labels[1][j] EXCEPT !.label_store = None]]))
          /\ (ann0.custom_labels # None => WrittenTriplets)) =>
          \/ /\ ann0.label_store # None
             /\ \E v \in Range(ann0.label_store[1]) : ~InLabelRange(v)
          \/ /\ WrittenTriplets
             /\ \E v \in Range(CustomStores(ann0.custom_labels[1])) : ~InLabelRange(v)

\* check_fields has accepted an object whose label stores are 1 and 49
C9_Witness ==
    /\ "check_fields" \in passed
    /\ ann0.label_store # None
    /\ Range(ann0.label_store[1]) = {1, 49}

\* A sample number is negative or smaller than the one before it
HasNegativeDifference(s) ==
    \/ \E k \in 1..Len(s) : BLt(s[k], BZero)
    \/ \E k \in 2..Len(s) : BLt(s[k], s[k - 1])

\* C10: wrann of an object whose sample has a negative value or a decrease
\* raises in check_fields; no bytes are computed and the file is untouched.
C10_NegativeRejected ==
    (ann0.sample # None /\ HasNegativeDifference(ann0.sample[1])) =>
        /\ "check_fields" \notin passed
        /\ core_bytes = None
        /\ file = file0
        /\ pc = "wr_error" => failed_at = "check_fields"

\* wrann has raised on samples that are not negative but decrease
C10_Witness ==
    /\ pc = "wr_error"
    /\ failed_at = "check_fields"
    /\ ann0.sample # None
    /\ Len(ann0.sample[1]) = 2
    /\ BLe(BZero, ann0.sample[1][2])
    /\ BLt(ann0.sample[1][2], ann0.sample[1][1])


\* C11: every sample difference that check_field('sample') accepts is at most
\* 2**31 - 1, the largest value whose four SKIP bytes are read back as a
\* number that is not negative
C11_RepresentableDifferences ==
    ("check_fields" \in passed /\ ann0.sample # None) =>
        \A i \in 1..Len(ann0.sample[1]) :
            BLe(SampDiffs(ann0.sample[1])[i], B2147483647)

\* Every value of every label field of the object is in that column of the frame
LabelsResolved(a, frame) ==
    \A i \in 1..Len(contained_label_fields(a)) :
        LET f == contained_label_fields(a)[i]
        IN  Range(a[f][1]) \subseteq Range(Column(frame, f))

\* Every field that check_field_cohesion measures has one element per annotation
FieldLengthsAgree(a) ==
    /\ a.sample # None
    /\ \A f \in {"num", "subtype", "chan", "aux_note", "label_store", "symbol",
                 "description"} :
          Truthy(a[f]) => Len(a[f][1]) = Len(a.sample[1])

\* C12: an object with a label value that the label map does not have is
\* never written (wrann raises at convert_label_attribute or at
\* check_field_cohesion and the file stays as it was), and an object all of
\* whose label values are in the label map passes check_field_cohesion
C12_UnresolvedLabelsRejected ==
    /\ (label_map # None /\ ~LabelsResolved(ann0, label_map[1])) =>
          /\ "check_field_cohesion" \notin passed
          /\ core_bytes = None
          /\ file = file0
          /\ pc = "wr_error" =>
                failed_at \in {"convert_label_attribute", "check_field_cohesion"}
    /\ ( /\ "convert_label_attribute" \in passed
         /\ FieldLengthsAgree(ann0)
         /\ LabelsResolved(ann0, label_map[1]) ) =>
          failed_at # "check_field_cohesion"


\* The value of chan or num of the annotation before annotation i, 0 for the
\* first annotation
Previous(list, i) == IF i = 1 THEN 0 ELSE list[i - 1]

\* The pairs that the claim puts after the first pair(s) of annotation i
ExtraWords(a, i) ==
    (IF a.num # None /\ a.num[1][i] # Previous(a.num[1], i)
     THEN <<a.num[1][i], 240>> ELSE <<>>)
    \o (IF a.subtype # None /\ a.subtype[1][i] # 0
        THEN <<a.subtype[1][i], 244>> ELSE <<>>)
    \o (IF a.chan # None /\ a.chan[1][i] # Previous(a.chan[1], i)
        THEN <<a.chan[1][i], 248>> ELSE <<>>)
    \o (IF a.aux_note # None /\ a.aux_note[1][i] # <<>>
        THEN <<Len(a.aux_note[1][i]), 252>> \o a.aux_note[1][i]
             \o (IF Len(a.aux_note[1][i]) % 2 = 1 THEN <<0>> ELSE <<>>)
        ELSE <<>>)

\* C20: the bytes of annotation i have a chan (num) pair exactly when its
\* chan (num) is not that of annotation i - 1 (0 for the first), a subtype
\* pair exactly when its subtype is not 0 and an aux_note exactly when its
\* note is not empty
C20_FieldCompaction ==
    "calc_core_bytes" \in passed =>
        core_bytes[1] =
            Flatten([i \in 1..Len(ann0.sample[1]) |->
                        field2bytes_samptype(SampDiffs(ann0.sample[1])[i],
                                             ann0.symbol[1][i]).bytes
                        \o ExtraWords(ann0, i)])

\* Two annotations have been encoded: the second has the chan of the first
\* and gets no chan pair, and it alone has a subtype and an aux_note
C20_Witness ==
    /\ "calc_core_bytes" \in passed
    /\ ann0.chan = Some(<<3, 3>>)
    /\ ann0.num = Some(<<0, 7>>)
    /\ ann0.subtype = Some(<<0, 5>>)
    /\ ann0.aux_note = Some(<<<<>>, <<65>>>>)
    /\ ann0.sample = Some(<<BInt(5), BInt(10)>>)
    /\ core_bytes[1] = <<5, 4, 3, 248, 5, 4, 7, 240, 5, 244, 1, 252, 65, 0>>

---------------------------------------------------------------------------
(* Properties of rdann on a file that is there (SpecRd).                   *)

\* The positions, in the order of the stream, of the annotations that rdann
\* has decoded whose sample number is in sampfrom..sampto
InRange ==
    SelectSeq([k \in 1..Len(sample) |-> k],
              LAMBDA k : /\ BLe(BInt(sampfrom), sample[k])
                         /\ BLe(sample[k], BInt(sampto)))

\* What shift_samps takes from every sample number
Shift == IF shift_samps /\ sampfrom > 0 THEN sampfrom ELSE 0

C14_LabelRetained ==
    pc = "returned" =>
        /\ \E f \in Range(ANN_LABEL_FIELDS) : annotation[1][f] # None
        /\ (data_fields[1] \cap Range(ANN_LABEL_FIELDS) = {}) =>
              annotation[1].label_store # None
---------------------------------------------------------------------------
(* rdann on a file with information annotations (SpecInfo): every          *)
(* concatenation of at most MaxInfoTokens of the annotations below and the *)
(* zero pair, read with the default arguments.                             *)

\* '## time resolution: 7'
NoteFs7 == FsPrefix \o <<55>>

\* '## x': an information line that is none of the lines rdann knows
NoteOther == InfoPrefix \o <<120>>

\* '1 x d': the definition of the label 'x' with label_store 1
NoteDefinition == <<49, 32, 120, 32, 100>>

\* '2 y e': the definition of the label 'y' with label_store 2
NoteDefinition2 == <<50, 32, 121, 32, 101>>

\* A comment annotation (label_store 22) at the sample of its predecessor
NoteWords(text) == EventWord(0, 22) \o AuxWords(text)

\* The definitions of 'x' and 'y' between their opening and closing lines
DefinitionsBlock ==
    NoteWords(DefinitionsStart) \o NoteWords(NoteDefinition)
    \o NoteWords(NoteDefinition2) \o NoteWords(DefinitionsEnd)

InfoTokens ==
    { EventWord(0, 1),              \* 'N' at the sample of its predecessor
      EventWord(5, 1),              \* 'N' five samples on
      << <<0, 0>> >>,               \* an annotation with label_store 0
      [k \in 1..4 |-> <<0, 0>>],    \* four of them
      NoteWords(NoteFs7),
      NoteWords(DefinitionsStart),
      NoteWords(NoteDefinition),
      NoteWords(DefinitionsEnd),
      NoteWords(NoteOther),
      DefinitionsBlock,
      EventWord(5, 22) \o AuxWords(NoteDefinition) }   \* the comment '1 x d' five samples on

InfoFiles ==
    {PairsToBytes(Flatten(ts) \o << <<0, 0>> >>) : ts \in SeqsUpTo(InfoTokens, MaxInfoTokens)}

InitInfo ==
    /\ pc = "written"
    /\ file \in {Some(f) : f \in InfoFiles}
    /\ file0 = file
    /\ sampto = 0
    /\ RdIdle
    /\ ann = NoAnnotation
    /\ ann0 = NoAnnotation
    /\ write_fs = FALSE
    /\ label_map = None
    /\ fs_bytes = None
    /\ cl_bytes = None
    /\ core_bytes = None
    /\ failed_at = ""
    /\ passed = {}
    /\ file_bytes = <<>>
    /\ bpi = 0
    /\ sample_total = BZero
    /\ sample = <<>>
    /\ label_store = <<>>
    /\ subtype = <<>>
    /\ chan = <<>>
    /\ num = <<>>
    /\ aux_note = <<>>
    /\ update = AllUpdate
    /\ supplied = <<>>
    /\ InfoIdle
    /\ LibIdle

NextInfo ==
    \/ CheckReadInputs \/ LoadBytePairs \/ ProcCore \/ ProcExtra \/ UpdateExtra
    \/ GetInfoInds \/ ExtractAnnInfo \/ RmEmptyIndices
    \/ ApplyRange \/ SetDataFields

SpecInfo == InitInfo /\ [][NextInfo]_vars

\* The positions (from 1) of the decoded annotations that are neither an
\* information annotation (sample 0, label_store 22) nor of label_store 0
KeptPositions ==
    SelectSeq([k \in 1..Len(sample) |-> k],
              LAMBDA k : /\ ~(sample[k] = BZero /\ label_store[k] = 22)
                         /\ label_store[k] # 0)

TakeKept(a) == [j \in 1..Len(KeptPositions) |-> a[KeptPositions[j]]]

FsRecords ==
    {k \in 1..Len(sample) : /\ sample[k] = BZero
                            /\ label_store[k] = 22
                            /\ k <= Len(aux_note)
                            /\ rx_fs_findall(aux_note[k]).found}

\* C22: when extract_ann_info has returned and some information annotation
\* of the file holds '## time resolution: <number>', fs is the number of
\* one of them, wherever that annotation stands among the decoded ones.
C22_FsRecovered ==
    (pc = "rm_empty" /\ FsRecords # {}) =>
        \E k \in FsRecords : fs = Some(FsValue(rx_fs_findall(aux_note[k])))

\* The texts of the decoded information annotations, in their order
InfoTexts ==
    LET inds == SelectSeq([k \in 1..Len(sample) |-> k],
                          LAMBDA k : sample[k] = BZero /\ label_store[k] = 22)
    IN  [j \in 1..Len(inds) |-> aux_note[inds[j]]]

\* The definitions that stand in the blocks of the texts from text k on;
\* ok: every block is closed and holds definition lines only
RECURSIVE DefinitionsOf(_, _, _, _)
DefinitionsOf(texts, k, inside, labels) ==
    IF k > Len(texts) THEN [ok |-> ~inside, labels |-> labels]
    ELSE IF ~inside
    THEN DefinitionsOf(texts, k + 1, texts[k] = DefinitionsStart, labels)
    ELSE IF texts[k] = DefinitionsEnd
    THEN DefinitionsOf(texts, k + 1, FALSE, labels)
    ELSE IF rx_custom_label_findall(texts[k]).found
    THEN DefinitionsOf(texts, k + 1, TRUE,
                       Append(labels, rx_custom_label_findall(texts[k]).label))
    ELSE [ok |-> FALSE, labels |-> labels]

\* C23: when extract_ann_info has returned for a file whose information
\* annotations hold closed blocks of definition lines, custom_labels is the
\* list of the (label_store, symbol, description) of those lines in the
\* order of the file, and None, never an empty list, when there is no line.
C23_CustomLabelsRecovered ==
    pc = "rm_empty" =>
        /\ custom_labels # Some(<<>>)
        /\ DefinitionsOf(InfoTexts, 1, FALSE, <<>>).ok =>
              custom_labels =
                  LET labels == DefinitionsOf(InfoTexts, 1, FALSE, <<>>).labels
                  IN  IF labels = <<>> THEN None ELSE Some(labels)

---------------------------------------------------------------------------
(* calc_cl_bytes on an object whose custom_labels is a frame with the      *)
(* three columns (SpecCl): at most MaxDefinitions labels with label stores *)
(* of one and two digits, symbols of one, two and three characters and     *)
(* descriptions of one and two characters.                                 *)

ClTriplets ==
    {CustomRow(Some(c), s, d) : c \in {1, 12},
                                s \in {<<120>>, <<120, 121>>, <<120, 121, 122>>},
                                d \in {<<100>>, <<100, 101>>}}

InitCl ==
    /\ pc = "calc_cl_bytes"
    /\ ann \in {[Plain(1) EXCEPT !.custom_labels = Some(cl)] :
                   cl \in SeqsUpTo(ClTriplets, MaxDefinitions)}
    /\ ann0 = ann
    /\ write_fs = FALSE
    /\ label_map = None
    /\ fs_bytes = Some(<<>>)
    /\ cl_bytes = None
    /\ core_bytes = None
    /\ file = None
    /\ file0 = None
    /\ failed_at = ""
    /\ passed = {}
    /\ DecIdle
    /\ InfoIdle
    /\ RdIdle
    /\ LibIdle

NextCl == CalcClBytes

SpecCl == InitCl /\ [][NextCl]_vars

\* The bytes of a comment annotation with sample difference 0 whose
\* aux_note is the text: [0, 88], the length of the text and 252, the text
\* and a zero when the text has an odd number of characters
CommentBytes(text) ==
    <<0, 88, Len(text), 252>> \o text \o (IF Len(text) % 2 = 1 THEN <<0>> ELSE <<>>)

\* '<label_store> <symbol> <description>'
DefinitionText(row) ==
    Str(row.label_store[1]) \o <<32>> \o row.symbol \o <<32>> \o row.description

\* C24: for custom labels whose symbols have 1, 2 or 3 characters,
\* calc_cl_bytes returns the comment annotation that opens the definitions,
\* one comment annotation with the text '<label_store> <symbol>
\* <description>' for every label, and the comment annotation that closes
\* them.
C24_PrologueLines ==
    (/\ pc \in {"wr_error", "calc_core_bytes"}
     /\ failed_at \in {"", "calc_cl_bytes"}
     /\ Truthy(ann.custom_labels)
     /\ \A i \in 1..Len(ann.custom_labels[1]) :
           /\ ann.custom_labels[1][i].label_store # None
           /\ Len(ann.custom_labels[1][i].symbol) \in 1..3) =>
        /\ pc = "calc_core_bytes"
        /\ cl_bytes = Some(CommentBytes(DefinitionsStart)
                           \o Flatten([i \in 1..Len(ann.custom_labels[1]) |->
                                  CommentBytes(DefinitionText(ann.custom_labels[1][i]))])
                           \o CommentBytes(DefinitionsEnd))

\* The information annotations are the first annotations of the file
InfoFirst == potential_info_inds = 0..(Cardinality(potential_info_inds) - 1)

\* Some text opens the definitions and no later text closes them
Unterminated(texts) ==
    \E k \in 1..Len(texts) :
        /\ texts[k] = DefinitionsStart
        /\ \A n \in (k + 1)..Len(texts) : texts[n] # DefinitionsEnd

\* C27: extract_ann_info does not return for a file whose information
\* annotations open the definitions and never close them, and a custom
\* label it returns is the definition of an information annotation, never
\* the text of another annotation.  Stated for the files whose information
\* annotations stand first.
C27_UnterminatedBlock ==
    (pc = "rm_empty" /\ InfoFirst) =>
        /\ ~Unterminated(InfoTexts)
        /\ custom_labels # None =>
              \A j \in 1..Len(custom_labels[1]) :
                  \E k \in 1..Len(InfoTexts) :
                      /\ rx_custom_label_findall(InfoTexts[k]).found
                      /\ rx_custom_label_findall(InfoTexts[k]).label = custom_labels[1][j]

\* rdann runs on: a step that can be taken is taken (SpecInfoLive).
SpecInfoLive == InitInfo /\ [][NextInfo]_vars /\ WF_vars(NextInfo)

\* C28: every pass of the loop of extract_ann_data and of its loop over the
\* extra fields moves bpi on by at least one pair, and rdann ends, with its
\* result or with an error, for every file.
C28_ReadTerminates ==
    /\ [][/\ (pc = "core" /\ pc' = "extra") => bpi' > bpi
          /\ (pc = "extra" /\ pc' = "extra") => bpi' > bpi]_vars
    /\ <>(pc \in {"returned", "rd_error"})

\* C29: whenever the decoder has finished an annotation (its pair, its
\* extra-field pairs, then the defaults and carry-over), the six lists
\* sample, label_store, subtype, chan, num and aux_note have one length.
C29_FieldAlignment ==
    EventsComplete =>
        /\ Len(label_store) = Len(sample)
        /\ Len(subtype) = Len(sample)
        /\ Len(chan) = Len(sample)
        /\ Len(num) = Len(sample)
        /\ Len(aux_note) = Len(sample)

---------------------------------------------------------------------------
(* Properties of the label map and of the bytes of wrann (SpecWr), second  *)
(* part.                                                                   *)

\* C25: _create_label_map on custom labels that each have a label store c
\* gives a label map whose row c holds the symbol and description of that
\* label, and in which every row of ANN_LABELS whose label store is not the
\* label store of a custom label stands unchanged.
C25_ExplicitStoresMerged ==
    (/\ WrittenTriplets
     /\ "custom_labels_to_df" \in passed
     /\ (label_map # None \/ failed_at = "create_label_map")) =>
        LET cl     == ann0.custom_labels[1]
            stores == Range(CustomStores(cl))
        IN  /\ label_map # None
            /\ \A j \in 1..Len(cl) :
                  \E r \in Range(label_map[1]) :
                      /\ r.label_store = cl[j].label_store[1]
                      /\ r.symbol = cl[j].symbol
                      /\ r.description = cl[j].description
            /\ \A p \in 1..Len(ANN_LABELS) :
                  ANN_LABELS[p].label_store \notin stores =>
                      \E r \in Range(label_map[1]) :
                          /\ r.label_store = ANN_LABELS[p].label_store
                          /\ r.symbol = ANN_LABELS[p].symbol
                          /\ r.description = ANN_LABELS[p].description

\* The label stores in the order in which the three pools are to be used:
\* the label stores of 1..49 that ANN_LABELS does not have, then those of
\* the standard labels that no annotation of the object uses, then those of
\* the standard labels that a custom label names, each pool ascending
PoolsInPriority(a) ==
    LET usefield    == Head(contained_label_fields(a))
        base        == Range(Column(ANN_LABELS, usefield))
        custom      == {a.custom_labels[1][j][usefield] : j \in 1..Len(a.custom_labels[1])}
        undefined   == (LABEL_RANGE_LO..LABEL_RANGE_HI)
                       \ Range(Column(ANN_LABELS, "label_store"))
        unused      == StoresOf(usefield, base \ Range(a[usefield][1])) \ undefined
        overwritten == (StoresOf(usefield, custom \cap base) \ unused) \ undefined
    IN  Ascending(undefined) \o Ascending(unused) \o Ascending(overwritten)

\* C26: the label stores given to k custom labels without label stores are
\* the first k of the undefined label stores of 1..49 in ascending order,
\* followed by the unused ones, followed by the overwritten ones; the label
\* store of a standard label that an annotation uses and no custom label
\* names is given to none.
C26_AllocationPriority ==
    (WrittenPairs /\ ann0.symbol # None /\ label_map # None) =>
        LET k == Len(ann0.custom_labels[1])
        IN  /\ k <= Len(PoolsInPriority(ann0))
            /\ \A j \in 1..k : AssignedStore(j) = {PoolsInPriority(ann0)[j]}

\* C30: in every state of wrann, while it runs, after it has written and
\* after it has raised, the object has the sample, subtype, chan, num and
\* aux_note it had when wrann was called.
C30_CallerEventsUntouched ==
    /\ ann.sample = ann0.sample
    /\ ann.subtype = ann0.subtype
    /\ ann.chan = ann0.chan
    /\ ann.num = ann0.num
    /\ ann.aux_note = ann0.aux_note

\* wrann has written an object whose subtype and chan are all zeros, which
\* the compaction sets to None in the copy
C30_Witness ==
    /\ pc = "written"
    /\ ann0.subtype # None
    /\ ann0.chan # None
    /\ compact_fields(ann0).subtype = None
    /\ compact_fields(ann0).chan = None
    /\ ann.subtype = ann0.subtype
    /\ ann.chan = ann0.chan

====
